---- MODULE Spec2Model ----
(***************************************************************************)
(* A model of rfest.GLM (src/rfest/GLM/_glm.py): the filter registry       *)
(* (add_design_matrix), initialize / compute_mle, the optimizer loop of    *)
(* fit / optimize, and predict / score.                                    *)
(*                                                                         *)
(* Numerical arrays are modelled by what the control flow reads of them:   *)
(* a matrix by its shape (and, for a design matrix, the number of leading  *)
(* rows that were dropped), a spline basis by the arguments it was built   *)
(* from, a parameter set by its keys and by the optimizer step that        *)
(* produced it, a cost or metric value by an integer.  Python dictionaries *)
(* are functions whose DOMAIN is the set of keys.  An exception raised by  *)
(* a call is recorded in the field err of the object; everything the call  *)
(* assigned before the raise stays assigned, as in Python.                 *)
(***************************************************************************)
EXTENDS Integers, Sequences, FiniteSets, TLC

VARIABLES glm, call, ncalls

vars == <<glm, call, ncalls>>

-----------------------------------------------------------------------------
(* Bounds of the model *)

MaxCalls == 3
MaxLifeCalls == 3
MaxRows == 4
MaxDim == 3
MaxDf == 2
MaxTol == 3
MaxIters == 305

-----------------------------------------------------------------------------
(* Python dictionaries *)

EmptyDict == <<>>

Has(d, k) == k \in DOMAIN d

HasIn(d, k1, k2) == Has(d, k1) /\ Has(d[k1], k2)

Put(d, k, v) == [x \in (DOMAIN d) \cup {k} |-> IF x = k THEN v ELSE d[x]]

Pop(d, k) == [x \in (DOMAIN d) \ {k} |-> d[x]]

Max2(a, b) == IF a >= b THEN a ELSE b

Min2(a, b) == IF a <= b THEN a ELSE b

-----------------------------------------------------------------------------
(* The object after GLM.__init__ *)

\* singular: the filters of the data set on whose matrix the exact inversion
\* fails.  shared: the methods m for which p[m]['intercept'] is the mapping
\* object intercept[m] itself (lines 385 and 455); p0_shares: the method whose
\* intercept mapping p0['intercept'] is (line 386).
\* A parameter set: the per-filter vectors, the intercept dictionary and the
\* number of optimizer steps that produced it.
NoParams == [vals |-> EmptyDict, icpt |-> EmptyDict, steps |-> 0]

NewGLM ==
  [ X |-> EmptyDict, S |-> EmptyDict, P |-> EmptyDict, XS |-> EmptyDict,
    y |-> EmptyDict, y_pred |-> EmptyDict,
    y_pred_upper |-> EmptyDict, y_pred_lower |-> EmptyDict,
    p |-> EmptyDict, b |-> EmptyDict, w |-> EmptyDict, intercept |-> EmptyDict,
    V |-> EmptyDict, w_se |-> EmptyDict, b_se |-> EmptyDict,
    df |-> EmptyDict, edf |-> EmptyDict, dims |-> EmptyDict,
    n_features |-> EmptyDict, nf_order |-> <<>>, filter_names |-> <<>>,
    shift |-> EmptyDict, filter_nonlinearity |-> EmptyDict,
    lam |-> EmptyDict,
    distr |-> "gaussian", output_nonlinearity |-> "none",
    singular |-> {}, shared |-> {}, p0_shares |-> "none",
    mle_computed |-> FALSE, init_solves |-> 0,
    has_burn_in |-> FALSE, burn_in |-> 0,
    has_init |-> FALSE, num_subunits |-> 0, compute_ci |-> FALSE,
    has_compute_ci |-> FALSE, init_method |-> "unset",
    has_p0 |-> FALSE, p0 |-> NoParams,
    has_beta |-> FALSE, beta |-> 0,
    has_opt |-> FALSE,
    cost_train |-> <<>>, cost_dev |-> <<>>,
    metric_train |-> <<>>, metric_dev |-> <<>>, all_params |-> <<>>,
    metric_dev_opt |-> 0,
    stop |-> "unset", last_i |-> 0, best |-> 0, tolerance |-> 0,
    num_iters |-> 0, return_model |-> "unset", metric |-> "unset",
    prof |-> "unset",
    ret |-> [kind |-> "none", rows |-> 0, steps |-> 0],
    err |-> "none" ]

\* `self.intercept[method] = {}`, lines 282 and 428: a new mapping object;
\* the parameter sets built before keep the old one
icpt_rebind(g, method) ==
  [g EXCEPT !.intercept = Put(@, method, EmptyDict),
            !.shared = @ \ {method},
            !.p0_shares = IF @ = method THEN "none" ELSE @]

\* `self.intercept[method][name] = ...` and `self.intercept[method].pop(...)`,
\* lines 328 and 357: the mapping object changes in place, and with it every
\* parameter set that holds it under 'intercept'
icpt_write(g, method, d) ==
  [g EXCEPT !.intercept[method] = d,
            !.p = IF method \in g.shared /\ Has(g.p, method)
                  THEN [@ EXCEPT ![method].icpt = d] ELSE @,
            !.p0 = IF g.p0_shares = method THEN [@ EXCEPT !.icpt = d] ELSE @]

Raise(g, e) == [g EXCEPT !.err = e]

Ok(g) == g.err = "none"

-----------------------------------------------------------------------------
(* External collaborators, by their interface *)

\* rfest.utils.build_design_matrix(X, dims[0], shift): one row per sample,
\* dims[0] lagged copies of every input column.
build_design_matrix(n, cols, d0) == [rows |-> n, cols |-> cols * d0]

\* rfest.splines.build_spline_matrix(dims, df, smooth, lam, return_P=True):
\* S maps prod(dims) raw features to prod(df) coefficients; P carries lam.
build_spline_S(dims, df, smooth) ==
  [rows |-> dims[1], cols |-> df, dims |-> dims, smooth |-> smooth]

build_spline_P(dims, df, smooth, lam) ==
  [n |-> df, dims |-> dims, smooth |-> smooth, lam |-> lam]

-----------------------------------------------------------------------------
(* GLM.add_design_matrix *)
(* Every step of a handler leaves an object that has raised as it is, so a   *)
(* handler is the composition of its steps in the order of the code.        *)

\* X[burn_in:] of a matrix with n rows
DropRows(m, k) ==
  [rows |-> Max2(m.rows - Min2(k, m.rows), 0), cols |-> m.cols,
   dropped |-> Min2(k, m.rows), lagged |-> TRUE]

\* X as it is passed, line 223
RawMatrix(n, cols) ==
  [rows |-> n, cols |-> cols, dropped |-> 0, lagged |-> FALSE]

\* X @ S
MatMul(x, s) == [rows |-> x.rows, cols |-> s.cols, basis |-> s]

EnsureKind(d, kind) == IF Has(d, kind) THEN d ELSE Put(d, kind, EmptyDict)

\* self.n_features[name] = nf; self.edf[name] = ...: a new key goes last
adm_set_features(g, name, nf, exact) ==
  [g EXCEPT !.n_features = Put(@, name, nf),
            !.nf_order = IF Has(g.n_features, name) THEN @ ELSE Append(@, name),
            !.edf = Put(@, name, [n |-> nf, exact |-> exact])]

\* lines 201-210: the train split (re)defines the filter
adm_register_train(g, a) ==
  [g EXCEPT !.X = EnsureKind(@, a.kind),
            !.filter_nonlinearity = Put(@, a.name, a.fnl),
            !.filter_names = Append(@, a.name),
            !.dims = Put(@, a.name, a.dims),
            !.shift = Put(@, a.name, a.shift)]

\* lines 201-213: the other splits read dims and shift of the filter
adm_register(g, a) ==
  IF a.kind = "train" THEN adm_register_train(g, a)
  ELSE IF Has(g.dims, a.name) THEN [g EXCEPT !.X = EnsureKind(@, a.kind)]
  ELSE Raise([g EXCEPT !.X = EnsureKind(@, a.kind)], "KeyError")

\* lines 215-217
adm_burn_in(g, a) ==
  IF ~Ok(g) \/ g.has_burn_in THEN g
  ELSE [g EXCEPT !.burn_in = IF a.burn_in < 0 THEN g.dims[a.name][1] - 1
                             ELSE a.burn_in,
                 !.has_burn_in = TRUE]

\* the raw input stored with the burn-in left as it is
adm_no_lag_keep(g, a) ==
  [g EXCEPT !.X[a.kind] = Put(@, a.name, RawMatrix(a.n, a.cols))]

\* lines 221-225
adm_no_lag(g, a) ==
  [g EXCEPT !.burn_in = 0,
            !.X[a.kind] = Put(@, a.name, RawMatrix(a.n, a.cols))]

\* line 220
adm_lag(g, a) ==
  [g EXCEPT !.X[a.kind] =
     Put(@, a.name,
         DropRows(build_design_matrix(a.n, a.cols, g.dims[a.name][1]), g.burn_in))]

\* lines 219-225
adm_design(g, a) ==
  IF ~Ok(g) THEN g ELSE IF a.lag THEN adm_lag(g, a) ELSE adm_no_lag(g, a)

\* self.XS[kind][name] = self.X[kind][name] @ S
adm_matmul(g, a, s) ==
  IF g.X[a.kind][a.name].cols # s.rows THEN Raise(g, "TypeError")
  ELSE [g EXCEPT !.XS[a.kind] = Put(@, a.name, MatMul(g.X[a.kind][a.name], s))]

\* lines 231-234
adm_project(g, a, s) ==
  adm_matmul([g EXCEPT !.XS = EnsureKind(@, a.kind)], a, s)

\* lines 239-242: the basis a test split of a filter without basis reads
adm_test_key(g, a) ==
  IF g.has_init /\ g.num_subunits > 1 THEN "stimulus_s0" ELSE a.name

\* lines 236-243
adm_test_basis(g, a) ==
  IF Has(g.S, adm_test_key(g, a)) THEN adm_project(g, a, g.S[adm_test_key(g, a)])
  ELSE Raise([g EXCEPT !.XS = EnsureKind(@, a.kind)], "KeyError")

\* lines 227-248
adm_no_smooth(g, a) ==
  IF Has(g.S, a.name) THEN adm_project(g, a, g.S[a.name])
  ELSE IF a.kind = "test" THEN adm_test_basis(g, a)
  ELSE IF a.kind = "train"
       THEN adm_set_features(g, a.name, g.X["train"][a.name].cols, TRUE)
       ELSE g

\* lines 251-258: the basis and the penalty are built and stored
adm_build_basis(g, a) ==
  [g EXCEPT !.XS = EnsureKind(@, a.kind),
            !.df = Put(@, a.name, a.df),
            !.lam = Put(@, a.name, a.lam),
            !.S = Put(@, a.name, build_spline_S(g.dims[a.name], a.df, a.smooth)),
            !.P = Put(@, a.name,
                      build_spline_P(g.dims[a.name], a.df, a.smooth, a.lam))]

\* lines 260-261
adm_project_own(g, a) == adm_matmul(g, a, g.S[a.name])

\* lines 263-269
adm_smooth_features(g, a) ==
  IF ~Ok(g) \/ a.kind # "train" THEN g
  ELSE adm_set_features(g, a.name, g.XS["train"][a.name].cols, a.lam = 0)

\* lines 250-269
adm_smooth(g, a) ==
  adm_smooth_features(adm_project_own(adm_build_basis(g, a), a), a)

\* lines 227-269
adm_spline(g, a) ==
  IF ~Ok(g) THEN g
  ELSE IF a.smooth = "none" THEN adm_no_smooth(g, a) ELSE adm_smooth(g, a)

add_design_matrix(g, a) ==
  adm_spline(adm_design(adm_burn_in(adm_register(g, a), a), a), a)

-----------------------------------------------------------------------------
(* GLM.fnl and GLM.forwardpass *)

SupportedNl ==
  {"softplus", "exponential", "softmax", "sigmoid", "tanh", "relu",
   "leaky_relu", "none"}

Range(seq) == {seq[i] : i \in 1..Len(seq)}

\* the exception one filter of the split raises in the loop of lines 496-503
fp_filter_err(g, p, kind, name) ==
  IF Has(g.S, name) /\ ~(Has(g.XS, kind) /\ Has(g.XS[kind], name))
  THEN "KeyError"
  ELSE IF ~Has(p.vals, name) THEN "KeyError"
  ELSE LET inp == IF Has(g.S, name) THEN g.XS[kind][name] ELSE g.X[kind][name]
       IN  IF inp.cols # p.vals[name].len THEN "TypeError"
           ELSE IF ~Has(p.icpt, name) THEN "KeyError"
           ELSE IF g.filter_nonlinearity[name] \notin SupportedNl
                THEN "NotImplementedError"
           ELSE "none"

fp_rows(g, kind) == {g.X[kind][name].rows : name \in DOMAIN g.X[kind]}

\* the outcome of a forward pass that raises e
fp_raise(e, p) == [err |-> e, rows |-> 0, steps |-> p.steps, names |-> {}]

\* forwardpass(p, kind): [err, rows, steps, names], names being the filters
\* whose outputs are summed (`for name in self.X[kind]`, line 496)
forwardpass(g, p, kind) ==
  IF ~Has(g.X, kind) THEN fp_raise("KeyError", p)
  ELSE LET errs == {fp_filter_err(g, p, kind, name) : name \in DOMAIN g.X[kind]}
                     \ {"none"}
       IN  IF errs # {} THEN fp_raise(CHOOSE e \in errs : TRUE, p)
           ELSE IF Cardinality(fp_rows(g, kind)) > 1
           THEN fp_raise("ValueError", p)
           ELSE IF ~Has(p.icpt, "global") THEN fp_raise("KeyError", p)
           ELSE IF g.output_nonlinearity \notin SupportedNl
           THEN fp_raise("NotImplementedError", p)
           ELSE [err |-> "none",
                 rows |-> IF fp_rows(g, kind) = {} THEN 0
                          ELSE CHOOSE r \in fp_rows(g, kind) : TRUE,
                 steps |-> p.steps,
                 names |-> DOMAIN g.X[kind]]

Pred(f) == [rows |-> f.rows, steps |-> f.steps]

-----------------------------------------------------------------------------
(* GLM._get_filter_variance and GLM._get_response_variance *)

\* `try: inv(...) except: pinv(...)`, lines 955-959, 994-997 and 1011-1014:
\* how the covariance of a filter is obtained when the exact inversion of
\* its matrix fails for the names in g.singular
inv_or_pinv(g, name) == IF name \in g.singular THEN "pinv" ELSE "inv"

\* `V[name] = jnp.linalg.inv(X[name].T @ X[name]) * rss_var[name]`, line 971
inv_only(g, name) == IF name \in g.singular THEN "LinAlgError" ELSE "inv"

\* lines 949-973 and 984-1014: the branch of one filter
fv_cov(g, name) ==
  IF Has(g.S, name) \/ g.distr # "gaussian" THEN inv_or_pinv(g, name)
  ELSE inv_only(g, name)

\* lines 932-943 and 986-1006: the mappings and keys the loop reads
fv_key_err(g, w_type) ==
  \/ ~Has(g.X, "train")
  \/ g.distr = "gaussian" /\ ~(Has(g.y, "train") /\ HasIn(g.y_pred, w_type, "train"))
  \/ \E name \in Range(g.filter_names) :
       \/ ~Has(g.edf, name)
       \/ ~Has(g.X["train"], name)
       \/ Has(g.S, name) /\ ~HasIn(g.XS, "train", name)
       \/ g.distr # "gaussian" /\ Has(g.S, name) /\ ~HasIn(g.b, w_type, name)
       \/ g.distr # "gaussian" /\ ~Has(g.S, name) /\ ~HasIn(g.w, w_type, name)

\* lines 940-942 and 989-1007: the optimizer steps of the parameters behind
\* a covariance: those of the stored train prediction the residuals are taken
\* from (Gaussian), those of the stored weights (otherwise)
fv_steps(g, w_type) ==
  IF g.distr = "gaussian" THEN g.y_pred[w_type]["train"].steps
  ELSE IF Has(g.p, w_type) THEN g.p[w_type].steps ELSE 0

\* lines 1018-1020
fv_store(g, w_type, names) ==
  [g EXCEPT
     !.V = Put(@, w_type,
               [name \in names |-> [w_type |-> w_type, by |-> fv_cov(g, name),
                                    steps |-> fv_steps(g, w_type)]]),
     !.b_se = Put(@, w_type, [name \in {k \in names : Has(g.S, k)} |-> w_type]),
     !.w_se = Put(@, w_type, [name \in names |-> w_type])]

\* lines 926-1020: a covariance and standard errors for every filter name
get_filter_variance(g, w_type) ==
  IF fv_key_err(g, w_type) THEN Raise(g, "KeyError")
  ELSE IF \E name \in Range(g.filter_names) : fv_cov(g, name) = "LinAlgError"
  THEN Raise(g, "LinAlgError")
  ELSE fv_store(g, w_type, Range(g.filter_names))

\* lines 1065-1067: the bands of a weight type start as empty mappings
rv_bands(g, w_type) ==
  IF Has(g.y_pred_lower, w_type) THEN g
  ELSE [g EXCEPT !.y_pred_lower = Put(@, w_type, EmptyDict),
                 !.y_pred_upper = Put(@, w_type, EmptyDict)]

\* lines 1069-1071: the response and its two bands are stored
rv_store(g, w_type, kind, r) ==
  IF ~Has(g.y_pred, w_type) \/ ~Has(g.y_pred_upper, w_type)
  THEN Raise(g, "KeyError")
  ELSE [g EXCEPT !.y_pred[w_type] = Put(@, kind, r),
                 !.y_pred_upper[w_type] = Put(@, kind, r),
                 !.y_pred_lower[w_type] = Put(@, kind, r)]

\* lines 1022-1071: the response and its bands for one split
get_response_variance(g, w_type, kind) ==
  IF ~(Has(g.X, kind) /\ Has(g.b, w_type) /\ Has(g.w, w_type)
       /\ Has(g.V, w_type) /\ Has(g.intercept, w_type))
  THEN Raise(g, "KeyError")
  ELSE IF \E name \in DOMAIN g.X[kind] :
            \/ ~Has(g.V[w_type], name)
            \/ ~Has(g.w[w_type], name)
            \/ ~Has(g.intercept[w_type], name)
            \/ Has(g.S, name) /\ ~(Has(g.XS, kind) /\ Has(g.XS[kind], name)
                                   /\ Has(g.b[w_type], name))
  THEN Raise(g, "KeyError")
  ELSE rv_store(rv_bands(g, w_type), w_type, kind,
                [rows |-> IF fp_rows(g, kind) = {} THEN 0
                          ELSE CHOOSE r \in fp_rows(g, kind) : TRUE,
                 steps |-> IF Has(g.p, w_type) THEN g.p[w_type].steps ELSE 0])

-----------------------------------------------------------------------------
(* GLM.compute_mle *)

\* the block of the concatenated design matrix that belongs to one filter
mle_block_ok(g, name, n_samples) ==
  IF Has(g.S, name)
  THEN Has(g.XS, "train") /\ Has(g.XS["train"], name)
       /\ g.XS["train"][name].rows = n_samples
  ELSE Has(g.X["train"], name) /\ g.X["train"][name].rows = n_samples

\* columns of the concatenated design matrix: the global ones-column, then
\* for every filter name its own ones-column and its design columns
mle_block_cols(g, name) ==
  1 + (IF Has(g.S, name) THEN g.XS["train"][name].cols
       ELSE g.X["train"][name].cols)

RECURSIVE mle_total_cols(_, _)
mle_total_cols(g, names) ==
  IF names = <<>> THEN 1
  ELSE mle_block_cols(g, Head(names)) + mle_total_cols(g, Tail(names))

\* l = cumsum([0] + [n_features[name] + 1 for name in n_features]), line 431
RECURSIVE mle_offset(_, _)
mle_offset(g, i) ==
  IF i = 0 THEN 0
  ELSE mle_offset(g, i - 1) + g.n_features[g.nf_order[i]] + 1

\* mle[idx[i][0]:idx[i][1]] for the i-th filter name (i from 1), lines 435-442
mle_slice(g, i, total) ==
  LET lo == Min2(mle_offset(g, i - 1), total)
      hi == Min2(mle_offset(g, i), total)
  IN  [icpt |-> lo, vec |-> [len |-> Max2(hi - lo - 1, 0), lo |-> lo + 1,
                             steps |-> 0]]

\* lines 437-442 for a filter with a basis: b, then w = S @ b
mle_assign_smooth(g, name, sl) ==
  IF g.S[name].cols # sl.vec.len
  THEN Raise([g EXCEPT !.intercept["mle"] = Put(@, name, sl.icpt),
                       !.b["mle"] = Put(@, name, sl.vec)], "TypeError")
  ELSE [g EXCEPT !.intercept["mle"] = Put(@, name, sl.icpt),
                 !.b["mle"] = Put(@, name, sl.vec),
                 !.w["mle"] = Put(@, name, [len |-> g.S[name].rows,
                                            lo |-> sl.vec.lo, steps |-> 0])]

\* lines 443-444 for a filter without basis
mle_assign_plain(g, name, sl) ==
  [g EXCEPT !.intercept["mle"] = Put(@, name, sl.icpt),
            !.w["mle"] = Put(@, name, sl.vec)]

mle_assign_one(g, name, sl) ==
  IF Has(g.S, name) THEN mle_assign_smooth(g, name, sl)
  ELSE mle_assign_plain(g, name, sl)

\* the loop of lines 435-444 from the i-th filter name on
RECURSIVE mle_assign(_, _, _)
mle_assign(g, i, total) ==
  IF ~Ok(g) \/ i > Len(g.filter_names) THEN g
  ELSE IF i > Len(g.nf_order) THEN Raise(g, "IndexError")
  ELSE mle_assign(mle_assign_one(g, g.filter_names[i], mle_slice(g, i, total)),
                  i + 1, total)

\* lines 446-455
mle_params(g) ==
  [vals |-> [name \in Range(g.filter_names) |->
               IF Has(g.S, name) THEN g.b["mle"][name] ELSE g.w["mle"][name]],
   icpt |-> g.intercept["mle"], steps |-> 0]

\* self.y_pred[w_type][kind] = self.forwardpass(...), given its outcome f
store_pred(g, w_type, kind, f) ==
  IF f.err # "none" THEN Raise(g, f.err)
  ELSE [g EXCEPT !.y_pred[w_type] = Put(@, kind, Pred(f))]

\* ValueError('Training set is empty after burned in.'), lines 407 and 459
EmptyTrain == "ValueError: Training set is empty"

\* ValueError('Dev set is empty after burned in.'), line 471
EmptyDev == "ValueError: Dev set is empty"

\* the exception of the array library for a negative length, an empty list
\* of blocks or blocks of different heights (lines 416-419)
ArrayError == "ArrayError"

\* lines 402-403: compute_ci is set once
mle_enter(g, compute_ci) ==
  [g EXCEPT !.compute_ci = IF g.has_compute_ci THEN @ ELSE compute_ci,
            !.has_compute_ci = TRUE]

\* lines 405-415: the response is read
mle_read(g, y) ==
  IF y.is_dict /\ y.train = 0 THEN Raise(g, EmptyTrain)
  ELSE IF ~g.has_burn_in THEN Raise(g, "AttributeError")
  ELSE g

mle_begin(g, y, compute_ci) == mle_read(mle_enter(g, compute_ci), y)

\* the block of a filter is stored
mle_block_has(g, name) ==
  IF Has(g.S, name) THEN Has(g.XS, "train") /\ Has(g.XS["train"], name)
  ELSE Has(g.X, "train") /\ Has(g.X["train"], name)

\* lines 415-424: the concatenated design matrix and the solve
mle_lstsq(g, y) ==
  IF ~Ok(g) THEN g
  ELSE IF y.train - g.burn_in < 0 \/ g.filter_names = <<>>
  THEN Raise(g, ArrayError)
  ELSE IF \E name \in Range(g.filter_names) : ~mle_block_has(g, name)
  THEN Raise(g, "KeyError")
  ELSE IF \E name \in Range(g.filter_names) :
            ~mle_block_ok(g, name, y.train - g.burn_in)
  THEN Raise(g, ArrayError)
  ELSE [icpt_rebind(g, "mle") EXCEPT !.b = Put(@, "mle", EmptyDict),
                                      !.w = Put(@, "mle", EmptyDict)]

\* lines 426-444
mle_split(g) ==
  IF ~Ok(g) THEN g ELSE mle_assign(g, 1, mle_total_cols(g, g.filter_names))

\* lines 446-447
mle_global(g) ==
  IF ~Ok(g) THEN g ELSE [g EXCEPT !.intercept["mle"] = Put(@, "global", 0)]

\* lines 449-459
mle_store(g, y) ==
  IF ~Ok(g) THEN g
  ELSE [g EXCEPT !.p = Put(@, "mle", mle_params(g)),
                 !.shared = @ \cup {"mle"},
                 !.y_pred = Put(@, "mle", EmptyDict),
                 !.y = Put(@, "train", y.train - g.burn_in)]

\* lines 460-461
mle_pred_train(g) ==
  IF ~Ok(g) THEN g
  ELSE IF g.y["train"] = 0 THEN Raise(g, EmptyTrain)
  ELSE store_pred(g, "mle", "train", forwardpass(g, g.p["mle"], "train"))

\* `if self.compute_ci: self._get_filter_variance(w_type)`, lines 463-464
\* and 809-810
ci_filters(g, w_type) ==
  IF ~Ok(g) \/ ~g.compute_ci THEN g ELSE get_filter_variance(g, w_type)

\* `if self.compute_ci: self._get_response_variance(w_type, kind)`, lines
\* 465-466, 474-475 and 811-814
ci_response(g, w_type, kind) ==
  IF ~Ok(g) \/ ~g.compute_ci THEN g
  ELSE get_response_variance(g, w_type, kind)

\* lines 468-470
mle_dev_y(g, y) == [g EXCEPT !.y = Put(@, "dev", Max2(y.dev - g.burn_in, 0))]

\* line 471
mle_pred_dev(g) ==
  IF g.y["dev"] = 0 THEN Raise(g, EmptyDev)
  ELSE store_pred(g, "mle", "dev", forwardpass(g, g.p["mle"], "dev"))

\* lines 468-475
mle_dev(g, y) ==
  IF ~Ok(g) \/ ~(y.is_dict /\ y.has_dev) THEN g
  ELSE ci_response(mle_pred_dev(mle_dev_y(g, y)), "mle", "dev")

\* line 477
mle_done(g) == IF ~Ok(g) THEN g ELSE [g EXCEPT !.mle_computed = TRUE]

compute_mle(g, y, compute_ci) ==
  mle_done(
    mle_dev(
      ci_response(
        ci_filters(
          mle_pred_train(
            mle_store(
              mle_global(mle_split(mle_lstsq(mle_begin(g, y, compute_ci), y))),
              y)),
          "mle"),
        "mle", "train"),
      y))

-----------------------------------------------------------------------------
(* GLM.initialize *)

\* the names for which `'stimulus' in name` holds
StimulusNames == {"stimulus", "stimulus_s0", "stimulus_s1", "stimulus_s2",
                  "stimulus_s3"}

SubunitNames == <<"stimulus_s0", "stimulus_s1", "stimulus_s2", "stimulus_s3">>

ContainsStimulus(name) == name \in StimulusNames

RECURSIVE RemoveFirst(_, _)
RemoveFirst(seq, x) ==
  IF seq = <<>> THEN <<>>
  ELSE IF Head(seq) = x THEN Tail(seq)
  ELSE <<Head(seq)>> \o RemoveFirst(Tail(seq), x)

\* lines 280-282
init_random_clear(g) ==
  [icpt_rebind(g, "random") EXCEPT !.b = Put(@, "random", EmptyDict),
                                   !.w = Put(@, "random", EmptyDict)]

\* lines 286-296
init_random_draw(g) ==
  IF \E name \in Range(g.filter_names) :
       IF Has(g.S, name) THEN ~HasIn(g.XS, "train", name)
       ELSE ~HasIn(g.X, "train", name)
  THEN Raise(g, "KeyError")
  ELSE [g EXCEPT
         !.b["random"] = [name \in {n \in Range(g.filter_names) : Has(g.S, n)} |->
            [len |-> g.XS["train"][name].cols, lo |-> 0, steps |-> 0]],
         !.w["random"] = [name \in Range(g.filter_names) |->
            [len |-> IF Has(g.S, name) THEN g.S[name].rows
                     ELSE g.X["train"][name].cols,
             lo |-> 0, steps |-> 0]],
         !.intercept["random"] =
            [name \in Range(g.filter_names) \cup {"global"} |-> 0]]

\* lines 324-327
sub_copy_meta(g, name) ==
  IF ~Ok(g) THEN g
  ELSE IF ~(Has(g.dims, "stimulus") /\ Has(g.shift, "stimulus")
            /\ Has(g.filter_nonlinearity, "stimulus"))
  THEN Raise(g, "KeyError")
  ELSE [g EXCEPT !.dims = Put(@, name, g.dims["stimulus"]),
                 !.df = Put(@, name, g.dims["stimulus"]),
                 !.shift = Put(@, name, g.shift["stimulus"]),
                 !.filter_nonlinearity =
                    Put(@, name, g.filter_nonlinearity["stimulus"])]

\* lines 328-329
sub_copy_params(g, name, method) ==
  IF ~Ok(g) THEN g
  ELSE IF ~(HasIn(g.intercept, method, "stimulus")
            /\ HasIn(g.w, method, "stimulus"))
  THEN Raise(g, "KeyError")
  ELSE [icpt_write(g, method,
                   Put(g.intercept[method], name, g.intercept[method]["stimulus"]))
          EXCEPT !.w[method] = Put(@, name, g.w[method]["stimulus"])]

\* lines 331-332
sub_copy_w_se(g, name, method) ==
  IF ~Ok(g) \/ ~Has(g.w_se, method) THEN g
  ELSE IF ~Has(g.w_se[method], "stimulus") THEN Raise(g, "KeyError")
  ELSE [g EXCEPT !.w_se[method] = Put(@, name, g.w_se[method]["stimulus"])]

\* lines 333-334
sub_copy_design(g, name) ==
  IF ~Ok(g) THEN g
  ELSE IF ~(HasIn(g.X, "train", "stimulus") /\ Has(g.edf, "stimulus"))
  THEN Raise(g, "KeyError")
  ELSE [g EXCEPT !.X["train"] = Put(@, name, g.X["train"]["stimulus"]),
                 !.edf = Put(@, name, g.edf["stimulus"])]

\* lines 336-337
sub_copy_dev(g, name) ==
  IF ~Ok(g) \/ ~Has(g.X, "dev") THEN g
  ELSE IF ~Has(g.X["dev"], "stimulus") THEN Raise(g, "KeyError")
  ELSE [g EXCEPT !.X["dev"] = Put(@, name, g.X["dev"]["stimulus"])]

\* line 340
sub_copy_b(g, name, method) ==
  IF ~Ok(g) \/ ~Has(g.S, "stimulus") THEN g
  ELSE IF ~HasIn(g.b, method, "stimulus") THEN Raise(g, "KeyError")
  ELSE [g EXCEPT !.b[method] = Put(@, name, g.b[method]["stimulus"])]

\* lines 341-342
sub_copy_b_se(g, name, method) ==
  IF ~Ok(g) \/ ~Has(g.S, "stimulus") \/ ~Has(g.b_se, method) THEN g
  ELSE IF ~Has(g.b_se[method], "stimulus") THEN Raise(g, "KeyError")
  ELSE [g EXCEPT !.b_se[method] = Put(@, name, g.b_se[method]["stimulus"])]

\* line 343
sub_copy_xs(g, name) ==
  IF ~Ok(g) \/ ~Has(g.S, "stimulus") THEN g
  ELSE IF ~HasIn(g.XS, "train", "stimulus") THEN Raise(g, "KeyError")
  ELSE [g EXCEPT !.XS["train"] = Put(@, name, g.XS["train"]["stimulus"])]

\* lines 345-346
sub_copy_xs_dev(g, name) ==
  IF ~Ok(g) \/ ~Has(g.S, "stimulus") \/ ~Has(g.XS, "dev") THEN g
  ELSE IF ~Has(g.XS["dev"], "stimulus") THEN Raise(g, "KeyError")
  ELSE [g EXCEPT !.XS["dev"] = Put(@, name, g.XS["dev"]["stimulus"])]

\* lines 348-349
sub_copy_basis(g, name) ==
  IF ~Ok(g) \/ ~Has(g.S, "stimulus") THEN g
  ELSE IF ~Has(g.P, "stimulus") THEN Raise(g, "KeyError")
  ELSE [g EXCEPT !.P = Put(@, name, g.P["stimulus"]),
                 !.S = Put(@, name, g.S["stimulus"])]

\* one pass of the loop body, lines 323-349
sub_copy(g, name, method) ==
  sub_copy_basis(
    sub_copy_xs_dev(
      sub_copy_xs(
        sub_copy_b_se(
          sub_copy_b(
            sub_copy_dev(
              sub_copy_design(
                sub_copy_w_se(
                  sub_copy_params(sub_copy_meta(g, name), name, method),
                  name, method),
                name),
              name),
            name, method),
          name, method),
        name),
      name),
    name)

\* for name in filter_names: if 'stimulus' in name: ..., lines 322-349
RECURSIVE sub_loop(_, _, _)
sub_loop(g, names, method) ==
  IF ~Ok(g) \/ names = <<>> THEN g
  ELSE IF ContainsStimulus(Head(names))
       THEN sub_loop(sub_copy(g, Head(names), method), Tail(names), method)
       ELSE sub_loop(g, Tail(names), method)

\* lines 351-354: a missing key is swallowed by the bare except
sub_pop_b(g, method) ==
  IF ~Ok(g) \/ ~Has(g.b, method) THEN g
  ELSE [g EXCEPT !.b[method] = Pop(@, "stimulus")]

\* line 356
sub_pop_w(g, method) ==
  IF ~Ok(g) THEN g
  ELSE IF ~HasIn(g.w, method, "stimulus") THEN Raise(g, "KeyError")
  ELSE [g EXCEPT !.w[method] = Pop(@, "stimulus")]

\* line 357
sub_pop_intercept(g, method) ==
  IF ~Ok(g) THEN g
  ELSE IF ~HasIn(g.intercept, method, "stimulus") THEN Raise(g, "KeyError")
  ELSE icpt_write(g, method, Pop(g.intercept[method], "stimulus"))

\* lines 358 and 359: self.X[kind].pop('stimulus')
sub_pop_X(g, kind) ==
  IF ~Ok(g) THEN g
  ELSE IF ~HasIn(g.X, kind, "stimulus") THEN Raise(g, "KeyError")
  ELSE [g EXCEPT !.X[kind] = Pop(@, "stimulus")]

\* lines 361 and 362: self.XS[kind].pop('stimulus')
sub_pop_XS(g, kind) ==
  IF ~Ok(g) \/ DOMAIN g.XS = {} THEN g
  ELSE IF ~HasIn(g.XS, kind, "stimulus") THEN Raise(g, "KeyError")
  ELSE [g EXCEPT !.XS[kind] = Pop(@, "stimulus")]

\* line 363
sub_pop_S(g) ==
  IF ~Ok(g) \/ DOMAIN g.XS = {} THEN g
  ELSE IF ~Has(g.S, "stimulus") THEN Raise(g, "KeyError")
  ELSE [g EXCEPT !.S = Pop(@, "stimulus")]

\* line 364
sub_pop_P(g) ==
  IF ~Ok(g) \/ DOMAIN g.XS = {} THEN g
  ELSE IF ~Has(g.P, "stimulus") THEN Raise(g, "KeyError")
  ELSE [g EXCEPT !.P = Pop(@, "stimulus")]

\* lines 319-320: the new list of filter names
sub_names(g, num_subunits) ==
  SubSeq(SubunitNames, 1, num_subunits)
    \o RemoveFirst(g.filter_names, "stimulus")

\* line 366
sub_rename(g, filter_names) ==
  IF ~Ok(g) THEN g ELSE [g EXCEPT !.filter_names = filter_names]

\* lines 351-364: the entries of 'stimulus' are removed
sub_pop(g, method) ==
  sub_pop_P(
    sub_pop_S(
      sub_pop_XS(
        sub_pop_XS(
          sub_pop_X(
            sub_pop_X(
              sub_pop_intercept(sub_pop_w(sub_pop_b(g, method), method), method),
              "train"),
            "dev"),
          "train"),
        "dev")))

\* lines 317-366: rename and repmat the stimulus filter to subunit filters
init_subunits(g, method, num_subunits) ==
  IF ~Ok(g) \/ num_subunits = 1 THEN g
  ELSE IF "stimulus" \notin Range(g.filter_names) THEN Raise(g, "ValueError")
  ELSE sub_rename(sub_pop(sub_loop(g, sub_names(g, num_subunits), method), method),
                  sub_names(g, num_subunits))

\* lines 368-389: self.p[method] and p0
init_params(g, method) ==
  IF ~Ok(g) THEN g ELSE
  LET names == Range(g.filter_names)
      ok(name) == IF Has(g.S, name) THEN HasIn(g.b, method, name)
                  ELSE HasIn(g.w, method, name)
      val(name) == IF Has(g.S, name) THEN g.b[method][name]
                   ELSE g.w[method][name]
      have == {name \in names : ok(name)}
      ps == [vals |-> [name \in have |-> val(name)],
             icpt |-> IF names = {} THEN EmptyDict ELSE g.intercept[method],
             steps |-> 0]
      sh == IF names = {} THEN g.shared \ {method} ELSE g.shared \cup {method}
  IN  IF have # names
      THEN Raise([g EXCEPT !.p = Put(@, method, ps), !.shared = sh], "KeyError")
      ELSE [g EXCEPT !.p = Put(@, method, ps), !.shared = sh,
                     !.p0 = ps, !.has_p0 = TRUE,
                     !.p0_shares = IF names = {} THEN "none" ELSE method]

\* line 306: initialize calls compute_mle; init_solves counts these calls
init_solve(g, y) == compute_mle([g EXCEPT !.init_solves = @ + 1], y, TRUE)

\* an initialization that solves on every call
init_solve_again(g, a) ==
  IF a.method = "random" THEN init_random_draw(init_random_clear(g))
  ELSE IF a.method = "mle" THEN init_solve(g, a.y)
       ELSE Raise(g, "ValueError")

\* lines 278-313
init_by_method(g, a) ==
  IF a.method = "random" THEN init_random_draw(init_random_clear(g))
  ELSE IF a.method = "mle"
       THEN IF ~g.mle_computed THEN init_solve(g, a.y) ELSE g
       ELSE Raise(g, "ValueError")

\* lines 274-276
init_meta(g, a) ==
  [g EXCEPT !.init_method = a.method,
            !.num_subunits = a.num_subunits, !.has_init = TRUE,
            !.compute_ci = a.compute_ci, !.has_compute_ci = TRUE]

initialize(g, a) ==
  init_params(
    init_subunits(init_by_method(init_meta(g, a), a), a.method, a.num_subunits),
    a.method)

-----------------------------------------------------------------------------
(* GLM.predict, GLM.compute_score and GLM.score *)

\* the add_design_matrix call of lines 842 and 845
TestArgs(g, name, n) ==
  [kind |-> "test", name |-> name, n |-> n, cols |-> 1, dims |-> g.dims[name],
   df |-> 0,
   smooth |-> "none", lam |-> 0, lag |-> TRUE, fnl |-> "none",
   shift |-> g.shift[name], burn_in |-> -1]

RECURSIVE predict_add(_, _, _)
predict_add(g, names, n) ==
  IF ~Ok(g) \/ names = <<>> THEN g
  ELSE IF ~(Has(g.dims, Head(names)) /\ Has(g.shift, Head(names)))
       THEN Raise(g, "KeyError")
       ELSE predict_add(add_design_matrix(g, TestArgs(g, Head(names), n)),
                        Tail(names), n)

\* lines 851-853: one pass of the loop body
predict_sub_copy(g, name) ==
  IF ~HasIn(g.X, "test", "stimulus") THEN Raise(g, "KeyError")
  ELSE IF ~HasIn(g.XS, "test", "stimulus")
  THEN Raise([g EXCEPT !.X["test"] = Put(@, name, g.X["test"]["stimulus"])],
             "KeyError")
  ELSE [g EXCEPT !.X["test"] = Put(@, name, g.X["test"]["stimulus"]),
                 !.XS["test"] = Put(@, name, g.XS["test"]["stimulus"])]

\* lines 850-853: rename and repmat for the test set
RECURSIVE predict_sub_loop(_, _)
predict_sub_loop(g, names) ==
  IF ~Ok(g) \/ names = <<>> THEN g
  ELSE IF ~ContainsStimulus(Head(names)) THEN predict_sub_loop(g, Tail(names))
  ELSE predict_sub_loop(predict_sub_copy(g, Head(names)), Tail(names))

\* line 854
predict_pop_X(g) ==
  IF ~Ok(g) THEN g
  ELSE IF ~HasIn(g.X, "test", "stimulus") THEN Raise(g, "KeyError")
  ELSE [g EXCEPT !.X["test"] = Pop(@, "stimulus")]

\* line 855
predict_pop_XS(g) ==
  IF ~Ok(g) THEN g
  ELSE IF ~HasIn(g.XS, "test", "stimulus") THEN Raise(g, "KeyError")
  ELSE [g EXCEPT !.XS["test"] = Pop(@, "stimulus")]

\* lines 849-855
predict_subunits(g) ==
  IF ~Ok(g) THEN g
  ELSE IF ~g.has_init THEN Raise(g, "AttributeError")
  ELSE IF g.num_subunits = 1 THEN g
  ELSE predict_pop_XS(predict_pop_X(predict_sub_loop(g, g.filter_names)))

\* a prediction that keeps the test split of the call before
predict_keep(g, a) ==
  IF ~Has(g.p, a.w_type) THEN Raise(g, "KeyError")
  ELSE [g EXCEPT !.X = IF Has(g.X, "test") THEN @ ELSE Put(@, "test", EmptyDict),
                 !.XS = IF Has(g.XS, "test") THEN @
                        ELSE Put(@, "test", EmptyDict)]

\* lines 835-838
predict_begin(g, a) ==
  IF ~Has(g.p, a.w_type) THEN Raise(g, "KeyError")
  ELSE [g EXCEPT !.X = Put(@, "test", EmptyDict),
                 !.XS = Put(@, "test", EmptyDict)]

\* line 857, given the outcome f of the forward pass
predict_return(g, f) ==
  IF f.err # "none" THEN Raise(g, f.err)
  ELSE [g EXCEPT !.ret = [kind |-> "pred", rows |-> f.rows, steps |-> f.steps,
                          names |-> f.names]]

predict_forward(g, a) ==
  IF ~Ok(g) THEN g
  ELSE predict_return(g, forwardpass(g, g.p[a.w_type], "test"))

\* lines 858-859
predict_ci(g, a) ==
  IF ~Ok(g) \/ ~g.compute_ci THEN g
  ELSE get_response_variance(g, a.w_type, "test")

\* a.names: the keys of the mapping X (<<"stimulus">> for an array)
predict(g, a) ==
  predict_ci(
    predict_forward(predict_subunits(predict_add(predict_begin(g, a), a.names, a.n)),
                    a),
    a)

Metrics == {"r2", "r2adj", "mse", "corrcoef", "gcv"}

\* compute_score(y, y_pred, metric): the exception it raises, "none" if none
compute_score_err(rows_y, rows_pred, metric) ==
  IF metric \in {"r2adj", "gcv"} THEN "AttributeError"
  ELSE IF metric \in Metrics /\ rows_y # rows_pred THEN "ValueError"
  ELSE "none"

\* line 919, given the exception e of compute_score
score_return(g, a, e) ==
  IF e # "none" THEN Raise(g, e)
  ELSE [g EXCEPT !.ret.kind = IF a.metric \in Metrics THEN "score" ELSE "None"]

\* lines 919-924
score_compute(g, a) ==
  IF ~Ok(g) THEN g
  ELSE score_return(g, a,
         compute_score_err(Max2(a.ny - g.burn_in, 0), g.ret.rows, a.metric))

score(g, a) ==
  IF ~g.has_burn_in THEN Raise(g, "AttributeError")
  ELSE score_compute(predict(g, a), a)

-----------------------------------------------------------------------------
(* GLM.cost, GLM.optimize and GLM.fit *)

\* `i > 300`, line 660
EarlyStopAfter == 300

\* the threshold 1e-5 of line 672, in the unit in which costs are counted
\* (one unit is 0.5e-5)
Eps == 2

\* np.nan, the value the traces are filled with (lines 624-627); costs and
\* metrics are counted from 0
NaN == -1

CostBase == 2000

IsNaN(v) == v < 0

\* The cost and the metric of the parameters after k optimizer steps, as the
\* data of the run decide them: a run is given by a profile, piecewise linear
\* in k with one bend.
Linear(base, q, k) == base + q.s1 * Min2(k, q.c) + q.s2 * Max2(k - q.c, 0)

TrainCostAt(prof, k) == Linear(CostBase, prof.train, k)

DevCostAt(prof, k) == Linear(CostBase, prof.dev, k)

\* compute_score: a metric value for a supported metric, None (stored as nan
\* in the trace) for an unsupported one
MetricAt(prof, metric, split, k) ==
  IF metric \notin Metrics THEN NaN
  ELSE IF split = "train" THEN Linear(CostBase, prof.mtrain, k)
  ELSE Linear(CostBase, prof.mdev, k)

\* lines 531-547, given the forward pass f: the exception the likelihood
\* raises
cost_fp_err(g, kind, f) ==
  IF f.err # "none" THEN f.err
  ELSE IF g.distr \notin {"gaussian", "poisson"} THEN "NotImplementedError"
  ELSE IF f.rows # g.y[kind] THEN "ValueError"
  ELSE "none"

cost_nll_err(g, p, kind) ==
  IF ~Has(g.y, kind) THEN "KeyError"
  ELSE cost_fp_err(g, kind, forwardpass(g, p, kind))

\* lines 549-556: the elastic-net term added to the loss, norm being
\* (1 - alpha) * l2 + alpha * l1 of the weights; `hasattr(self, 'beta') or
\* self.beta != 0` reads self.beta only when the attribute is missing
cost_penalty(g, p, kind, penalize, norm) ==
  IF ~penalize THEN [err |-> "none", value |-> 0]
  ELSE IF ~g.has_beta THEN [err |-> "AttributeError", value |-> 0]
  ELSE IF kind # "train" THEN [err |-> "none", value |-> 0]
  ELSE IF \E name \in Range(g.filter_names) : ~Has(p.vals, name)
  THEN [err |-> "KeyError", value |-> 0]
  ELSE [err |-> "none", value |-> g.beta * norm]

\* line 558, given the exception e of the likelihood and the penalty pen
cost_return(g, e, pen, nll) ==
  IF e # "none" THEN Raise(g, e)
  ELSE IF pen.err # "none" THEN Raise(g, pen.err)
  ELSE [g EXCEPT !.ret = [kind |-> "cost", value |-> nll + pen.value]]

\* cost(p, kind, precomputed=None, penalize): nll is the negative
\* log-likelihood of p on the split
cost(g, p, kind, penalize, nll, norm) ==
  cost_return(g, cost_nll_err(g, p, kind),
              cost_penalty(g, p, kind, penalize, norm), nll)

\* a[start:stop] of an array of length n: the first index of the slice
PySliceStart(start, n) ==
  IF start < 0 THEN Max2(n + start, 0) ELSE Min2(start, n)

\* np.all(np.diff(cost_dev[i - tolerance:i]) > 0), line 664
dev_increasing(prof, i, tolerance, n) ==
  \A j \in PySliceStart(i - tolerance, n) .. i - 2 :
     DevCostAt(prof, j + 2) - DevCostAt(prof, j + 1) > 0

\* np.all(np.diff(cost_train[i - tolerance:i]) < 1e-5), line 672
train_flat(prof, i, tolerance, n) ==
  \A j \in PySliceStart(i - tolerance, n) .. i - 2 :
     TrainCostAt(prof, j + 1) - TrainCostAt(prof, j) < Eps

\* `if i > 300`: the test without the tolerance
early_stop_unguarded(i, tolerance) == i > EarlyStopAfter

\* `if tolerance and i > 300`, line 660
early_stop_checked(i, tolerance) == tolerance # 0 /\ i > EarlyStopAfter

dev_stop_at(prof, i, tolerance, n, extra) ==
  early_stop_checked(i, tolerance) /\ extra /\ dev_increasing(prof, i, tolerance, n)

train_stop_at(prof, i, tolerance, n) ==
  early_stop_checked(i, tolerance) /\ train_flat(prof, i, tolerance, n)

\* the iterations (from 0) at which the loop of lines 639-679 would break
stop_set(prof, tolerance, n, extra) ==
  {i \in 0 .. n - 1 : dev_stop_at(prof, i, tolerance, n, extra)
                       \/ train_stop_at(prof, i, tolerance, n)}

SetMin(S) == CHOOSE x \in S : \A z \in S : x <= z

\* the loop of lines 639-686, given the iterations at which it would break:
\* the value of i when the loop is left, the reason, and the number of passes
loop_result(prof, tolerance, n, extra, stops) ==
  IF stops = {}
  THEN [i |-> IF n = 0 THEN 0 ELSE n - 1, stop |-> "maxiter_stop",
        executed |-> n]
  ELSE [i |-> SetMin(stops),
        stop |-> IF dev_stop_at(prof, SetMin(stops), tolerance, n, extra)
                 THEN "dev_stop" ELSE "train_stop",
        executed |-> SetMin(stops) + 1]

loop_exit(prof, tolerance, n, extra) ==
  loop_result(prof, tolerance, n, extra, stop_set(prof, tolerance, n, extra))

\* the traces as the loop fills them, lines 640-651 (index j from 0)
cost_train_at(prof, j) == TrainCostAt(prof, j)

cost_dev_at(prof, j, extra) == IF extra THEN DevCostAt(prof, j + 1) ELSE NaN

metric_train_at(prof, metric, j) == MetricAt(prof, metric, "train", j + 1)

metric_dev_at(prof, metric, j, extra) ==
  IF extra THEN MetricAt(prof, metric, "dev", j + 1) ELSE NaN

params_at(p0, j) == [p0 EXCEPT !.steps = j + 1]

\* lines 624-627 and 640-651: the arrays of length num_iters when the loop is
\* left after `executed` passes; the entries never written are nan
traces(a, executed, extra) ==
  [cost_train |-> [j \in 1 .. a.num_iters |->
                     IF j <= executed THEN cost_train_at(a.prof, j - 1) ELSE NaN],
   cost_dev |-> [j \in 1 .. a.num_iters |->
                   IF j <= executed THEN cost_dev_at(a.prof, j - 1, extra)
                   ELSE NaN],
   metric_train |-> [j \in 1 .. a.num_iters |->
                       IF j <= executed
                       THEN metric_train_at(a.prof, a.metric, j - 1) ELSE NaN],
   metric_dev |-> [j \in 1 .. a.num_iters |->
                     IF j <= executed
                     THEN metric_dev_at(a.prof, a.metric, j - 1, extra)
                     ELSE NaN]]

\* line 628 and 643: one entry for every pass
params_list(p0, executed) == [j \in 1 .. executed |-> params_at(p0, j - 1)]

\* arr, whole
KeepAll(arr, i) == arr

\* arr[:i + 1]
Truncate(arr, i) == SubSeq(arr, 1, Min2(i + 1, Len(arr)))

\* np.argmin / np.argmax of a non-empty array (index from 0): the first nan
\* if there is one, else the first extreme value
\* the search is by halves: the left half wins a tie, a nan wins over a number
RECURSIVE ArgMinIn(_, _, _)
ArgMinIn(a, lo, hi) ==
  IF lo = hi THEN lo
  ELSE LET mid == (lo + hi) \div 2
           l == ArgMinIn(a, lo, mid)
           r == ArgMinIn(a, mid + 1, hi)
       IN  IF IsNaN(a[l]) \/ (~IsNaN(a[r]) /\ a[l] <= a[r]) THEN l ELSE r

RECURSIVE ArgMaxIn(_, _, _)
ArgMaxIn(a, lo, hi) ==
  IF lo = hi THEN lo
  ELSE LET mid == (lo + hi) \div 2
           l == ArgMaxIn(a, lo, mid)
           r == ArgMaxIn(a, mid + 1, hi)
       IN  IF IsNaN(a[l]) \/ (~IsNaN(a[r]) /\ a[l] >= a[r]) THEN l ELSE r

ArgMin(a) == ArgMinIn(a, 1, Len(a)) - 1

ArgMax(a) == ArgMaxIn(a, 1, Len(a)) - 1

\* a selection whose last branch returns the final iterate
select_last(return_model, metric, stop, i, tolerance, tr) ==
  IF return_model = "best_dev_cost" THEN ArgMin(Truncate(tr.cost_dev, i))
  ELSE IF return_model = "best_train_cost"
       THEN ArgMin(Truncate(tr.cost_train, i))
  ELSE IF return_model = "best_dev_metric"
       THEN IF metric \in {"mse", "gcv"} THEN ArgMin(Truncate(tr.metric_dev, i))
            ELSE ArgMax(Truncate(tr.metric_dev, i))
  ELSE IF return_model = "best_train_metric"
       THEN IF metric \in {"mse", "gcv"} THEN ArgMin(Truncate(tr.metric_train, i))
            ELSE ArgMax(Truncate(tr.metric_train, i))
  ELSE IF return_model = "last"
       THEN IF stop = "dev_stop" THEN i - tolerance ELSE i
  ELSE i

\* lines 688-714: the index of the returned iterate; an argmin or argmax of
\* an empty array raises
select_best(return_model, metric, stop, i, tolerance, tr) ==
  IF return_model = "best_dev_cost" THEN ArgMin(Truncate(tr.cost_dev, i))
  ELSE IF return_model = "best_train_cost"
       THEN ArgMin(Truncate(tr.cost_train, i))
  ELSE IF return_model = "best_dev_metric"
       THEN IF metric \in {"mse", "gcv"} THEN ArgMin(Truncate(tr.metric_dev, i))
            ELSE ArgMax(Truncate(tr.metric_dev, i))
  ELSE IF return_model = "best_train_metric"
       THEN IF metric \in {"mse", "gcv"} THEN ArgMin(Truncate(tr.metric_train, i))
            ELSE ArgMax(Truncate(tr.metric_train, i))
  ELSE IF return_model = "last"
       THEN IF stop = "dev_stop" THEN i - tolerance ELSE i
  ELSE ArgMin(Truncate(tr.cost_dev, i))

\* a[k] of a Python sequence of length n: the position read, -1 if none
PyIndex(k, n) ==
  IF k >= 0 /\ k < n THEN k
  ELSE IF k < 0 /\ k + n >= 0 THEN k + n
  ELSE NaN

FirstErr(e1, e2) == IF e1 # "none" THEN e1 ELSE e2

\* lines 640-646 in the first pass, given the forward pass f on the train split
train_err(g, p0, metric, f) ==
  IF f.err # "none" THEN f.err
  ELSE IF g.distr \notin {"gaussian", "poisson"} THEN "NotImplementedError"
  ELSE IF f.rows # g.y["train"] THEN "ValueError"
  ELSE IF \E name \in Range(g.filter_names) : ~Has(p0.vals, name)
  THEN "KeyError"
  ELSE compute_score_err(g.y["train"], f.rows, metric)

\* lines 648-651 in the first pass, given the forward pass d on the dev split
dev_err(g, metric, d) ==
  IF d.err # "none" THEN d.err
  ELSE IF d.rows # g.y["dev"] THEN "ValueError"
  ELSE compute_score_err(g.y["dev"], d.rows, metric)

\* the exception the first pass of the loop body raises, lines 640-651
iteration_err(g, p0, metric) ==
  IF ~Has(g.y, "train") THEN "KeyError"
  ELSE FirstErr(train_err(g, p0, metric, forwardpass(g, p0, "train")),
                IF Has(g.y, "dev")
                THEN dev_err(g, metric, forwardpass(g, p0, "dev")) ELSE "none")

\* lines 728-730: the predictions of the last pass
opt_pred(g, p) ==
  IF Has(g.y, "dev")
  THEN Put(Put(g.y_pred["opt"], "train", Pred(forwardpass(g, p, "train"))),
           "dev", Pred(forwardpass(g, p, "dev")))
  ELSE Put(g.y_pred["opt"], "train", Pred(forwardpass(g, p, "train")))

\* lines 716-732: what optimize stores on the object and returns; stop,
\* last_i and best are its locals stop, i and best when it returns, prof is
\* the cost and metric profile of the data of the run
optimize_store(g, p0, a, ex, tr, best) ==
  IF IsNaN(PyIndex(best, ex.executed)) \/ IsNaN(PyIndex(best, a.num_iters))
  THEN Raise(g, "IndexError")
  ELSE [g EXCEPT
          !.cost_train = Truncate(tr.cost_train, ex.i),
          !.cost_dev = Truncate(tr.cost_dev, ex.i),
          !.metric_train = Truncate(tr.metric_train, ex.i),
          !.metric_dev = Truncate(tr.metric_dev, ex.i),
          !.metric_dev_opt = tr.metric_dev[PyIndex(best, a.num_iters) + 1],
          !.all_params = Truncate(params_list(p0, ex.executed), ex.i),
          !.stop = ex.stop, !.last_i = ex.i, !.best = best,
          !.tolerance = a.tolerance, !.num_iters = a.num_iters,
          !.return_model = a.return_model, !.prof = a.prof,
          !.y_pred["opt"] = opt_pred(g, params_at(p0, ex.i)),
          !.ret = [kind |-> "params",
                   params |-> params_at(p0, PyIndex(best, ex.executed))]]

\* lines 688-732, given the traces of the loop
optimize_select(g, p0, a, ex, tr) ==
  optimize_store(g, p0, a, ex, tr,
                 select_best(a.return_model, a.metric, ex.stop, ex.i,
                             a.tolerance, tr))

\* lines 624-732, given how the loop is left
optimize_run(g, p0, a, ex) ==
  optimize_select(g, p0, a, ex, traces(a, ex.executed, Has(g.y, "dev")))

\* optimize(p0, num_iters, metric, step_size, tolerance, verbose, return_model)
optimize(g, p0, a) ==
  IF a.num_iters = 0
  THEN Raise(g, IF a.return_model = "last" THEN "IndexError" ELSE "ValueError")
  ELSE IF iteration_err(g, p0, a.metric) # "none"
  THEN Raise(g, iteration_err(g, p0, a.metric))
  ELSE optimize_run(g, p0, a,
                    loop_exit(a.prof, a.tolerance, a.num_iters, Has(g.y, "dev")))

\* lines 798-807
eop_params(g) ==
  IF ~Ok(g) THEN g
  ELSE [g EXCEPT
          !.b = Put(@, "opt", [name \in {n \in Range(g.filter_names) : Has(g.S, n)}
                                 |-> g.p["opt"].vals[name]]),
          !.w = Put(@, "opt",
                    [name \in Range(g.filter_names) |->
                       IF Has(g.S, name)
                       THEN [g.p["opt"].vals[name] EXCEPT !.len = g.S[name].rows]
                       ELSE g.p["opt"].vals[name]]),
          !.intercept = Put(@, "opt", g.p["opt"].icpt),
          !.shared = @ \cup {"opt"}]

\* lines 813-814
eop_ci_dev(g) ==
  IF ~Ok(g) \/ ~Has(g.y, "dev") THEN g ELSE ci_response(g, "opt", "dev")

\* lines 797-814
extract_opt_params(g) ==
  eop_ci_dev(ci_response(ci_filters(eop_params(g), "opt"), "opt", "train"))

\* lines 774-776
fit_meta(g, a) ==
  [g EXCEPT !.has_beta = TRUE, !.beta = a.beta, !.metric = a.metric]

\* lines 778-779: without a stored dev response the last iterate is returned
fit_return_model(g, return_model) ==
  IF ~Has(g.y, "dev") THEN "last" ELSE return_model

\* lines 785-790: the responses passed to fit, after burn-in
fit_y(g, y) ==
  IF y.is_dict /\ y.has_dev
  THEN Put(Put(g.y, "train", Max2(y.train - g.burn_in, 0)),
           "dev", Max2(y.dev - g.burn_in, 0))
  ELSE Put(g.y, "train", Max2(y.train - g.burn_in, 0))

\* lines 781-790
fit_store_y(g, y) ==
  IF ~y.given
  THEN IF ~Has(g.y, "train") THEN Raise(g, "ValueError") ELSE g
  ELSE IF ~g.has_burn_in THEN Raise(g, "AttributeError")
  ELSE [g EXCEPT !.y = fit_y(g, y)]

\* line 792
fit_clear(g) ==
  IF ~Ok(g) THEN g ELSE [g EXCEPT !.y_pred = Put(@, "opt", EmptyDict)]

\* line 794: the call of optimize
fit_optimize(g, a) ==
  IF ~Ok(g) THEN g
  ELSE IF ~g.has_p0 THEN Raise(g, "AttributeError")
  ELSE optimize(g, g.p0, a)

\* line 794: self.p['opt'] = the parameters optimize returned
fit_assign(g) ==
  IF ~Ok(g) THEN g
  ELSE [g EXCEPT !.p = Put(@, "opt", g.ret.params), !.has_opt = TRUE]

fit(g, a) ==
  extract_opt_params(
    fit_assign(
      fit_optimize(
        fit_clear(fit_store_y(fit_meta(g, a), a.y)),
        [a EXCEPT !.return_model = fit_return_model(g, a.return_model)])))

-----------------------------------------------------------------------------
(* Inputs *)

Names == {"stimulus", "history"}

Kinds == {"train", "dev", "test"}

\* smooth / df / lam as they are passed together: no spline, or a spline basis
Splines ==
  { [smooth |-> "none", df |-> MaxDf, lam |-> 0],
    [smooth |-> "cr", df |-> MaxDf, lam |-> 0],
    [smooth |-> "cr", df |-> MaxDf - 1, lam |-> 1] }

AdmArgs(K, N, Sp, Lag, D, B) ==
  { [kind |-> k, name |-> nm, n |-> MaxRows, cols |-> IF lg THEN 1 ELSE d,
     dims |-> <<d>>, df |-> sp.df,
     smooth |-> sp.smooth, lam |-> sp.lam, lag |-> lg, fnl |-> "none",
     shift |-> 0, burn_in |-> b] :
    k \in K, nm \in N, sp \in Sp, lg \in Lag, d \in D, b \in B }

-----------------------------------------------------------------------------
(* The registry on its own: any sequence of add_design_matrix calls *)

\* the last call: the operation and those of its arguments the properties read
NoCall ==
  [op |-> "new", kind |-> "none", name |-> "none", rm |-> "none",
   lag |-> TRUE, burn_in |-> -1, d |-> 0]

AdmCall(a) ==
  [NoCall EXCEPT !.op = "add_design_matrix", !.kind = a.kind, !.name = a.name,
                 !.lag = a.lag, !.burn_in = a.burn_in, !.d = a.dims[1]]

InitReg ==
  /\ glm = NewGLM
  /\ call = NoCall
  /\ ncalls = 0

AddDesignMatrixAny ==
  /\ ncalls < MaxCalls
  /\ \E a \in AdmArgs(Kinds, Names, Splines, BOOLEAN,
                       MaxDim - 1 .. MaxDim, {-1}) :
       /\ glm' = add_design_matrix(Raise(glm, "none"), a)
       /\ call' = AdmCall(a)
  /\ ncalls' = ncalls + 1

NextReg == AddDesignMatrixAny

SpecReg == InitReg /\ [][NextReg]_vars

-----------------------------------------------------------------------------
(* The optimizer: the first fit of a model set up as the project's tests do *)

YArray(n) == [given |-> TRUE, is_dict |-> FALSE, train |-> n, has_dev |-> FALSE,
              dev |-> 0]

YDict(n, has_dev, m) ==
  [given |-> TRUE, is_dict |-> TRUE, train |-> n, has_dev |-> has_dev, dev |-> m]

YNone == [given |-> FALSE, is_dict |-> FALSE, train |-> 0, has_dev |-> FALSE,
          dev |-> 0]

SetupTrain ==
  add_design_matrix(NewGLM,
    [kind |-> "train", name |-> "stimulus", n |-> MaxRows, cols |-> 1,
     dims |-> <<MaxDim>>,
     df |-> MaxDf, smooth |-> "cr", lam |-> 1, lag |-> TRUE, fnl |-> "none",
     shift |-> 0, burn_in |-> -1])

SetupDev ==
  add_design_matrix(SetupTrain,
    [kind |-> "dev", name |-> "stimulus", n |-> MaxRows, cols |-> 1,
     dims |-> <<MaxDim>>,
     df |-> MaxDf, smooth |-> "none", lam |-> 0, lag |-> TRUE, fnl |-> "none",
     shift |-> 0, burn_in |-> -1])

InitArgs(y, k, method, ci) ==
  [y |-> y, num_subunits |-> k, method |-> method, compute_ci |-> ci]

\* test_glm_2d: train only
SetupA == initialize(SetupTrain, InitArgs(YArray(MaxRows), 1, "mle", FALSE))

\* test_glm_2d_split_data: a dev split, its response not yet stored
SetupB == initialize(SetupDev, InitArgs(YArray(MaxRows), 1, "mle", FALSE))

\* a dev split whose response initialize stored
SetupC ==
  initialize(SetupDev, InitArgs(YDict(MaxRows, TRUE, MaxRows), 1, "mle", FALSE))

-----------------------------------------------------------------------------
(* The life of a model before fitting: registration, initialization and     *)
(* prediction in any order                                                  *)

InitLife ==
  /\ glm = NewGLM
  /\ call = NoCall
  /\ ncalls = 0

AddDesignMatrixCall ==
  /\ ncalls < MaxLifeCalls
  /\ \E a \in AdmArgs({"train", "dev"}, Names,
                       {sp \in Splines : sp.lam = 0}, BOOLEAN,
                       MaxDim - 1 .. MaxDim, {-1, 1}) :
       /\ glm' = add_design_matrix(Raise(glm, "none"), a)
       /\ call' = AdmCall(a)
  /\ ncalls' = ncalls + 1

InitializeCall ==
  /\ ncalls < MaxLifeCalls
  /\ \E method \in {"random", "mle"}, k \in {1, 3}, ci \in BOOLEAN,
        y \in {YArray(MaxRows), YDict(MaxRows, TRUE, MaxRows)} :
       /\ glm' = initialize(Raise(glm, "none"), InitArgs(y, k, method, ci))
       /\ call' = [NoCall EXCEPT !.op = "initialize", !.kind = method]
  /\ ncalls' = ncalls + 1

PredictArgs(names, n, w_type) == [names |-> names, n |-> n, w_type |-> w_type]

PredictCall ==
  /\ ncalls < MaxLifeCalls
  /\ \E names \in {<<"stimulus">>, <<"stimulus", "history">>},
        w_type \in {"random", "mle"} :
       /\ glm' = predict(Raise(glm, "none"), PredictArgs(names, MaxRows, w_type))
       /\ call' = [NoCall EXCEPT !.op = "predict", !.kind = w_type]
  /\ ncalls' = ncalls + 1

NextLife == AddDesignMatrixCall \/ InitializeCall \/ PredictCall

SpecLife == InitLife /\ [][NextLife]_vars

-----------------------------------------------------------------------------
(* The inputs of fit *)

Tolerances == (0 .. MaxTol) \cup {MaxIters - 2}

NumIters == {0, 1, MaxIters - 1, MaxIters}

ReturnModels ==
  {"best_dev_cost", "best_train_cost", "best_dev_metric", "best_train_metric",
   "last", "median"}

Bend(S1, C, S2) == {[s1 |-> a, c |-> c, s2 |-> b] : a \in S1, c \in C, b \in S2}

Profiles ==
  { [train |-> t, dev |-> d, mtrain |-> d, mdev |-> t] :
      t \in Bend({-3, 3}, {EarlyStopAfter, EarlyStopAfter + 2}, {-3, 0, 3}),
      d \in Bend({-1, 1}, {EarlyStopAfter + 1}, {-1, 1}) }

FitArgs ==
  { [y |-> y, num_iters |-> n, beta |-> 1, metric |-> "corrcoef",
     tolerance |-> t, return_model |-> rm, prof |-> prof] :
      y \in {YDict(MaxRows, FALSE, 0), YDict(MaxRows, TRUE, MaxRows)},
      n \in NumIters, t \in Tolerances, rm \in {"best_dev_cost", "last"},
      prof \in Profiles }

InitOpt ==
  /\ glm \in {SetupA, SetupB, SetupC}
  /\ call = NoCall
  /\ ncalls = 0

Fit ==
  /\ ~glm.has_opt
  /\ ncalls = 0
  /\ \E a \in FitArgs :
       /\ glm' = fit(Raise(glm, "none"), a)
       /\ call' = [NoCall EXCEPT !.op = "fit", !.rm = a.return_model]
  /\ ncalls' = ncalls + 1

NextOpt == Fit

SpecOpt == InitOpt /\ [][NextOpt]_vars

-----------------------------------------------------------------------------
(* Properties of the registry *)

NoDuplicates(seq) == \A i, j \in 1 .. Len(seq) : seq[i] = seq[j] => i = j

\* the structural fields of a filter: dims, shift, basis and penalty
SameStructure(g, h, name) ==
  /\ h.dims[name] = g.dims[name]
  /\ h.shift[name] = g.shift[name]
  /\ Has(h.S, name) = Has(g.S, name)
  /\ Has(g.S, name) /\ Has(h.S, name) => h.S[name] = g.S[name]
  /\ Has(h.P, name) = Has(g.P, name)
  /\ Has(g.P, name) /\ Has(h.P, name) => h.P[name] = g.P[name]

\* C5: once a filter is registered for the train split, a later
\* add_design_matrix call for the same name with a dev or test split leaves
\* the dims, the shift, the basis matrix and the penalty matrix of the filter
\* unchanged, whatever arguments it passes.
C5_NonTrainKeepsStructure ==
  [][(/\ call'.op = "add_design_matrix"
      /\ call'.kind # "train"
      /\ Has(glm.dims, call'.name))
     => SameStructure(glm, glm', call'.name)]_vars

\* C6: after any sequence of add_design_matrix calls the list of filter names
\* holds every registered name exactly once, in the order of first
\* registration, and has the names of the feature-count map n_features.
C6_FilterNamesUnique ==
  /\ NoDuplicates(glm.filter_names)
  /\ Range(glm.filter_names) = DOMAIN glm.n_features
  /\ Ok(glm) => glm.filter_names = glm.nf_order

-----------------------------------------------------------------------------
(* Properties of the life of a model *)

\* the design matrices stored on g
LaggedOf(g) ==
  UNION {{g.X[kind][name] : name \in DOMAIN g.X[kind]} : kind \in DOMAIN g.X}

\* the burn-in a call of add_design_matrix asks for when none is set
AskedBurnIn(c) == IF c.burn_in < 0 THEN c.d - 1 ELSE c.burn_in

\* C3: initialize with num_subunits=3 on a model whose only train-registered
\* filter is 'stimulus' completes; afterwards the filter names contain
\* stimulus_s0, stimulus_s1, stimulus_s2 and not 'stimulus', and every alias
\* has the dims, the shift and the nonlinearity of the original filter.
C3_SubunitExpansion ==
  [][(/\ call'.op = "initialize"
      /\ glm'.num_subunits = 3
      /\ glm.filter_names = <<"stimulus">>
      /\ HasIn(glm.X, "train", "stimulus"))
     => /\ Ok(glm')
        /\ {"stimulus_s0", "stimulus_s1", "stimulus_s2"}
             \subseteq Range(glm'.filter_names)
        /\ "stimulus" \notin Range(glm'.filter_names)
        /\ \A name \in {"stimulus_s0", "stimulus_s1", "stimulus_s2"} :
             /\ glm'.dims[name] = glm.dims["stimulus"]
             /\ glm'.shift[name] = glm.shift["stimulus"]
             /\ glm'.filter_nonlinearity[name]
                  = glm.filter_nonlinearity["stimulus"]]_vars

\* C4 as stated: the burn-in is fixed by the first add_design_matrix call
\* (dims[0]-1 unless burn_in is given), keeps that value through every later
\* add_design_matrix or predict call, and is the number of leading rows
\* dropped from every lagged design matrix.
C4_BurnInFixedOnce ==
  [][/\ (~glm.has_burn_in /\ glm'.has_burn_in)
          => glm'.burn_in = AskedBurnIn(call')
     /\ glm.has_burn_in => glm'.burn_in = glm.burn_in
     /\ \A m \in LaggedOf(glm') : m.lagged => m.dropped = glm'.burn_in]_vars

\* C4: the first add_design_matrix call sets the burn-in (dims[0]-1 unless
\* burn_in is given); afterwards add_design_matrix keeps it when it applies
\* the time lag and sets it to 0 when it does not (the first call included);
\* initialize and predict never change it; a design matrix built with time
\* lag has dropped the burn-in in force when it was registered.
C4_BurnInUnlessNoLag ==
  [][/\ call'.op \in {"initialize", "predict"}
          => /\ glm'.burn_in = glm.burn_in
             /\ glm'.has_burn_in = glm.has_burn_in
     /\ (/\ call'.op = "add_design_matrix"
         /\ (call'.kind = "train" \/ Has(glm.dims, call'.name)))
          => /\ glm'.has_burn_in
             /\ glm'.burn_in = IF ~call'.lag THEN 0
                               ELSE IF glm.has_burn_in THEN glm.burn_in
                               ELSE AskedBurnIn(call')
             /\ call'.lag
                  => /\ glm'.X[call'.kind][call'.name].lagged
                     /\ glm'.X[call'.kind][call'.name].dropped = glm'.burn_in]_vars

\* a burn-in that was not 0 has been set to 0 by a call without time lag,
\* and a design matrix that dropped rows is still stored
C4_Witness ==
  /\ call.op = "add_design_matrix"
  /\ ~call.lag
  /\ ncalls >= 2
  /\ glm.burn_in = 0
  /\ \E m \in LaggedOf(glm) : m.lagged /\ m.dropped > 0

-----------------------------------------------------------------------------
(* Properties of the optimizer *)

\* fit has returned normally
Fitted == call.op = "fit" /\ Ok(glm) /\ glm.has_opt

Abs(x) == IF x < 0 THEN -x ELSE x

\* the differences trace[k] - trace[k-1] (k from 0) of the last `tolerance`
\* iterations up to and including iteration i, as far as the trace reaches
LastSteps(i, tolerance) == Max2(i - tolerance + 1, 1) .. i

\* C2: when fit is called with return_model best_dev_cost and a dev response
\* is available to the call (stored earlier or passed in the same call), the
\* parameters stored as 'opt' are the snapshot at the trace index that
\* minimizes the dev cost over the executed trace.
C2_BestDevCostIsArgmin ==
  (Fitted /\ call.rm = "best_dev_cost" /\ Has(glm.y, "dev"))
    => glm.p["opt"] = glm.all_params[ArgMin(glm.cost_dev) + 1]

\* C7: optimize ends after at most num_iters iterations, and the retained
\* traces (train cost, dev cost, train metric, dev metric, parameter
\* snapshots) each have the length of the number of iterations executed,
\* which never exceeds num_iters.
C7_TraceLengths ==
  Fitted =>
    /\ glm.last_i + 1 <= glm.num_iters
    /\ Len(glm.cost_train) = glm.last_i + 1
    /\ Len(glm.cost_dev) = glm.last_i + 1
    /\ Len(glm.metric_train) = glm.last_i + 1
    /\ Len(glm.metric_dev) = glm.last_i + 1
    /\ Len(glm.all_params) = glm.last_i + 1
    /\ \A j \in 1 .. Len(glm.cost_train) : ~IsNaN(glm.cost_train[j])

\* an early stop has cut the traces below num_iters
C7_Witness ==
  /\ Fitted
  /\ glm.stop # "maxiter_stop"
  /\ Len(glm.cost_train) < glm.num_iters
  /\ Len(glm.all_params) = Len(glm.cost_dev)

\* C8: optimize never stops early at an iteration of index 300 or less, nor
\* in a run with tolerance = 0: such a run executes exactly num_iters
\* iterations and its stop reason is maxiter_stop.
C8_NoEarlyStopBefore300 ==
  Fitted =>
    /\ glm.stop # "maxiter_stop"
         => glm.last_i > EarlyStopAfter /\ glm.tolerance # 0
    /\ (glm.tolerance = 0 \/ glm.num_iters <= EarlyStopAfter + 1)
         => /\ glm.stop = "maxiter_stop"
            /\ Len(glm.cost_train) = glm.num_iters

\* a run with tolerance = 0 went past iteration 300 to the last iteration
C8_Witness ==
  /\ Fitted
  /\ glm.tolerance = 0
  /\ glm.num_iters > EarlyStopAfter + 1
  /\ glm.stop = "maxiter_stop"
  /\ glm.last_i = glm.num_iters - 1

\* C9: when optimize stops with reason train_stop at iteration i, each of the
\* last `tolerance` consecutive differences of the train cost up to and
\* including iteration i is below 1e-5 in magnitude.
C9_TrainStopMeansFlat ==
  (Fitted /\ glm.stop = "train_stop")
    => \A k \in LastSteps(glm.last_i, glm.tolerance) :
         Abs(glm.cost_train[k + 1] - glm.cost_train[k]) < Eps

\* C10: at an iteration i > 300 with tolerance > 0 optimize stops with reason
\* dev_stop exactly when a dev split exists and the dev cost has strictly
\* increased at every step of the last `tolerance` iterations ending at i;
\* when the dev and the train condition both hold the reason is dev_stop.
C10_DevStopMeansIncreasing ==
  Fitted =>
    /\ glm.stop = "dev_stop"
         => /\ Has(glm.y, "dev")
            /\ \A k \in LastSteps(glm.last_i, glm.tolerance) :
                 glm.cost_dev[k + 1] > glm.cost_dev[k]
    /\ (/\ glm.stop = "train_stop"
        /\ Has(glm.y, "dev"))
         => \E k \in LastSteps(glm.last_i, glm.tolerance) :
              glm.cost_dev[k + 1] <= glm.cost_dev[k]

\* the iteration whose snapshot policy 'last' is to return
LastExpected ==
  IF glm.stop = "dev_stop" THEN glm.last_i - glm.tolerance ELSE glm.last_i

\* C11: with return_model 'last' optimize returns the snapshot of the final
\* executed iteration i, except when the stop reason is dev_stop: then it
\* returns the snapshot of iteration i - tolerance.
C11_LastReturnsFinal ==
  (Fitted /\ glm.return_model = "last")
    => /\ LastExpected \in 0 .. glm.last_i
       /\ glm.best = LastExpected
       /\ glm.p["opt"] = glm.all_params[LastExpected + 1]

-----------------------------------------------------------------------------
(* The selection of the returned iterate: one fit with every policy and     *)
(* metric, on models of every configuration                                 *)

\* a model with a train and a dev split of one filter, initialized at random
SetupOn(g0, nl) ==
  initialize(
    add_design_matrix(
      add_design_matrix(g0,
        [kind |-> "train", name |-> "stimulus", n |-> MaxRows, cols |-> 1,
         dims |-> <<MaxDim>>, df |-> MaxDf, smooth |-> "cr", lam |-> 1,
         lag |-> TRUE, fnl |-> nl, shift |-> 0, burn_in |-> -1]),
      [kind |-> "dev", name |-> "stimulus", n |-> MaxRows, cols |-> 1,
       dims |-> <<MaxDim>>, df |-> MaxDf, smooth |-> "none", lam |-> 0,
       lag |-> TRUE, fnl |-> nl, shift |-> 0, burn_in |-> -1]),
    InitArgs(YDict(MaxRows, TRUE, MaxRows), 1, "random", FALSE))

\* GLM(distr=..., output_nonlinearity=...) and filter_nonlinearity=... with
\* names the code does not know
SetupNl == SetupOn(NewGLM, "cube")

SetupOut == SetupOn([NewGLM EXCEPT !.output_nonlinearity = "cube"], "none")

SetupDistr == SetupOn([NewGLM EXCEPT !.distr = "binomial"], "none")

SelProfiles ==
  { [train |-> t, dev |-> d, mtrain |-> d, mdev |-> t] :
      t \in Bend({-3}, {EarlyStopAfter}, {0, 3}),
      d \in Bend({-1, 1}, {EarlyStopAfter + 1}, {-1, 1}) }

SelArgs ==
  { [y |-> YDict(MaxRows, TRUE, MaxRows), num_iters |-> n, beta |-> 1,
     metric |-> m, tolerance |-> t, return_model |-> rm, prof |-> prof] :
      n \in {2, MaxIters - 1}, m \in Metrics \cup {"f1"}, t \in {0, 2},
      rm \in ReturnModels, prof \in SelProfiles }

InitSel ==
  /\ glm \in {SetupA, SetupC, SetupNl, SetupOut, SetupDistr}
  /\ call = NoCall
  /\ ncalls = 0

\* call.rm is the policy fit hands to optimize, call.kind the metric
FitAny ==
  /\ ncalls = 0
  /\ \E a \in SelArgs :
       /\ glm' = fit(Raise(glm, "none"), a)
       /\ call' = [NoCall EXCEPT !.op = "fit", !.kind = a.metric,
                                 !.rm = fit_return_model(glm, a.return_model)]
  /\ ncalls' = ncalls + 1

NextSel == FitAny

SpecSel == InitSel /\ [][NextSel]_vars

KnownPolicies ==
  {"best_dev_cost", "best_train_cost", "best_dev_metric", "best_train_metric",
   "last"}

\* every nonlinearity and the distribution of the model are supported
GoodConfig(g) ==
  /\ g.distr \in {"gaussian", "poisson"}
  /\ g.output_nonlinearity \in SupportedNl
  /\ \A name \in DOMAIN g.filter_nonlinearity :
       g.filter_nonlinearity[name] \in SupportedNl

\* C13: an unrecognized selection policy does not abort optimize; the result
\* is the one of best_dev_cost, the snapshot at the argmin of the dev cost
\* over the executed trace.
C13_UnknownPolicyFallsBack ==
  /\ (/\ call.op = "fit"
      /\ call.rm \notin KnownPolicies
      /\ call.kind \in {"r2", "mse", "corrcoef"}
      /\ GoodConfig(glm))
       => Fitted
  /\ (Fitted /\ glm.return_model \notin KnownPolicies)
       => /\ glm.best = ArgMin(glm.cost_dev)
          /\ glm.ret.params = glm.all_params[glm.best + 1]
          /\ glm.p["opt"] = glm.ret.params

\* an unrecognized policy returned an iterate that is neither the first nor
\* the last one
C13_Witness ==
  /\ Fitted
  /\ glm.return_model = "median"
  /\ glm.best = ArgMin(glm.cost_dev)
  /\ glm.best > 0
  /\ glm.best < glm.last_i
  /\ glm.p["opt"] = glm.all_params[glm.best + 1]

\* the trace a metric policy looks at
MetricTrace ==
  IF call.rm = "best_dev_metric" THEN glm.metric_dev ELSE glm.metric_train

\* C12: with policy best_dev_metric (best_train_metric), for each of the
\* metrics r2, r2adj, mse, corrcoef and gcv the fit completes and returns the
\* snapshot at the index of the minimum dev (train) metric over the executed
\* trace when the metric is mse or gcv, and of the maximum otherwise.
C12_BestMetricSelects ==
  (/\ call.op = "fit"
   /\ call.rm \in {"best_dev_metric", "best_train_metric"}
   /\ call.kind \in Metrics
   /\ GoodConfig(glm))
    => /\ Fitted
       /\ glm.best = (IF call.kind \in {"mse", "gcv"} THEN ArgMin(MetricTrace)
                      ELSE ArgMax(MetricTrace))
       /\ glm.p["opt"] = glm.all_params[glm.best + 1]

\* C14: every configuration error is fatal: an unsupported filter or output
\* nonlinearity, an unsupported distribution and an unsupported metric each
\* abort the call that meets them, so no fit result comes from such a
\* configuration.
C14_ConfigErrorsFatal ==
  (call.op = "fit" /\ (~GoodConfig(glm) \/ call.kind \notin Metrics))
    => ~Ok(glm) /\ ~glm.has_opt

-----------------------------------------------------------------------------
(* The use of a registered model: solving, initializing, fitting, the cost  *)
(* and predicting in any order                                              *)

MaxUseCalls == 3

\* the weight norm (1 - alpha) * l2 + alpha * l1 of the parameters
MaxNorm == 5

UseAdm(kind, name, n, smooth) ==
  [kind |-> kind, name |-> name, n |-> n, cols |-> 1, dims |-> <<MaxDim>>,
   df |-> MaxDf, smooth |-> smooth, lam |-> IF smooth = "none" THEN 0 ELSE 1,
   lag |-> TRUE, fnl |-> "none", shift |-> IF name = "history" THEN 1 ELSE 0,
   burn_in |-> -1]

\* a smoothed stimulus filter and a history filter, smoothed or not, on
\* recordings of n samples, with a train and a dev split
UseReg(n, smooth) ==
  add_design_matrix(
    add_design_matrix(
      add_design_matrix(
        add_design_matrix(NewGLM, UseAdm("train", "stimulus", n, "cr")),
        UseAdm("train", "history", n, smooth)),
      UseAdm("dev", "stimulus", n, "none")),
    UseAdm("dev", "history", n, "none"))

\* responses as long as the recording, as long as the burn-in and shorter
UseYs ==
  {YArray(MaxDim - 2), YArray(MaxDim - 1), YArray(MaxRows),
   YDict(MaxRows, TRUE, MaxRows), YDict(MaxRows, TRUE, MaxDim - 1)}

UseFitArgs ==
  { [y |-> y, num_iters |-> 2, beta |-> b, metric |-> "corrcoef",
     tolerance |-> 0, return_model |-> "best_dev_cost",
     prof |-> [train |-> q, dev |-> q, mtrain |-> q, mdev |-> q]] :
      y \in {YNone, YDict(MaxRows, TRUE, MaxRows)}, b \in {0, 1},
      q \in Bend({-1}, {EarlyStopAfter}, {1}) }

\* names: the filters given to predict; before: the filters of the test
\* split when the call starts
UseCall ==
  [op |-> "new", kind |-> "none", y |-> YNone, ci |-> FALSE, names |-> <<>>,
   before |-> {}, penalize |-> FALSE]

InitUse ==
  /\ glm \in {UseReg(MaxRows, "cr"), UseReg(MaxRows, "none"),
              UseReg(MaxDim - 1, "none")}
  /\ call = UseCall
  /\ ncalls = 0

ComputeMleCall ==
  /\ ncalls < MaxUseCalls
  /\ \E y \in UseYs, ci \in BOOLEAN :
       /\ glm' = compute_mle(Raise(glm, "none"), y, ci)
       /\ call' = [UseCall EXCEPT !.op = "compute_mle", !.y = y, !.ci = ci]
  /\ ncalls' = ncalls + 1

InitializeUse ==
  /\ ncalls < MaxUseCalls
  /\ \E method \in {"random", "mle"}, ci \in BOOLEAN,
        y \in {YArray(MaxDim - 2), YArray(MaxRows),
               YDict(MaxRows, TRUE, MaxRows)} :
       /\ glm' = initialize(Raise(glm, "none"), InitArgs(y, 1, method, ci))
       /\ call' = [UseCall EXCEPT !.op = "initialize", !.kind = method,
                                  !.y = y, !.ci = ci]
  /\ ncalls' = ncalls + 1

FitUse ==
  /\ ncalls < MaxUseCalls
  /\ \E a \in UseFitArgs :
       /\ glm' = fit(Raise(glm, "none"), a)
       /\ call' = [UseCall EXCEPT !.op = "fit", !.y = a.y]
  /\ ncalls' = ncalls + 1

\* cost(p0, kind, penalize=...)
CostUse ==
  /\ ncalls < MaxUseCalls
  /\ glm.has_p0
  /\ \E kind \in {"train", "dev"}, penalize \in BOOLEAN :
       /\ glm' = cost(Raise(glm, "none"), glm.p0, kind, penalize, CostBase,
                      MaxNorm)
       /\ call' = [UseCall EXCEPT !.op = "cost", !.kind = kind,
                                  !.penalize = penalize]
  /\ ncalls' = ncalls + 1

PredictUse ==
  /\ ncalls < MaxUseCalls
  /\ \E names \in {<<"stimulus">>, <<"history">>, <<"stimulus", "history">>},
        w_type \in {"mle", "opt"} :
       /\ glm' = predict(Raise(glm, "none"), PredictArgs(names, MaxRows, w_type))
       /\ call' = [UseCall EXCEPT
                     !.op = "predict", !.kind = w_type, !.names = names,
                     !.before = IF Has(glm.X, "test") THEN DOMAIN glm.X["test"]
                                ELSE {}]
  /\ ncalls' = ncalls + 1

NextUse == ComputeMleCall \/ InitializeUse \/ FitUse \/ CostUse \/ PredictUse

SpecUse == InitUse /\ [][NextUse]_vars

\* the response of the call is too short for the burn-in of the model
TooShort ==
  \/ call'.y.train <= glm.burn_in
  \/ call'.y.has_dev /\ call'.y.dev <= glm.burn_in

\* C15: compute_mle fails with the data error ('... set is empty after burned
\* in') for every train response whose length is at most the burn-in and for
\* every provided dev response whose length is at most the burn-in; a call
\* that fails this way does not set the 'mle computed' flag.
C15_EmptyIsDataError ==
  [][(call'.op = "compute_mle" /\ TooShort)
       => /\ glm'.err \in {EmptyTrain, EmptyDev}
          /\ glm'.mle_computed = glm.mle_computed]_vars

\* the call is initialize(method='mle')
InitMle(c) == c.op = "initialize" /\ c.kind = "mle"

\* C16 as stated: across any sequence of initialize(method='mle') calls on
\* one model, compute_mle is executed by initialize at most once.
C16_SolvedAtMostOnce == glm.init_solves <= 1

\* C16: once the 'mle computed' flag is set, every later
\* initialize(method='mle') skips the solve and reuses the stored mle
\* parameter set, whatever response it is given: it does not call
\* compute_mle, succeeds, and leaves the responses, the predictions and the
\* mle parameters as they were; only a solve that raised before setting the
\* flag is run again.
C16_SkipsOnceComputed ==
  [][(glm.mle_computed /\ InitMle(call'))
       => /\ glm'.init_solves = glm.init_solves
          /\ Ok(glm')
          /\ glm'.mle_computed
          /\ glm'.y = glm.y
          /\ glm'.y_pred = glm.y_pred
          /\ glm'.p["mle"] = glm.p["mle"]
          /\ glm'.p0 = glm.p["mle"]]_vars

\* after one solve by an earlier initialize, initialize(method='mle')
\* succeeded with a response that is too short to be solved
C16_Witness ==
  /\ InitMle(call)
  /\ glm.init_solves = 1
  /\ glm.mle_computed
  /\ call.y.train <= glm.burn_in
  /\ Ok(glm)
  /\ glm.p0 = glm.p["mle"]

\* C17: every predict call rebuilds the test split from scratch: after
\* predict(M) on a model without subunits the test-split design-matrix store
\* holds exactly the filter names given in M (just 'stimulus' for an array),
\* nothing is left of an earlier predict call, and the returned prediction
\* is computed from those filters only.
C17_PredictRebuildsTest ==
  (call.op = "predict" /\ Ok(glm) /\ glm.num_subunits = 1)
    => /\ Has(glm.X, "test")
       /\ DOMAIN glm.X["test"] = Range(call.names)
       /\ Has(glm.XS, "test")
       /\ DOMAIN glm.XS["test"] = {name \in Range(call.names) : Has(glm.S, name)}
       /\ glm.ret.kind = "pred"
       /\ glm.ret.names = Range(call.names)

\* a prediction from the history filter alone, after one from both filters
C17_Witness ==
  /\ call.op = "predict"
  /\ Ok(glm)
  /\ glm.num_subunits = 1
  /\ call.before = {"stimulus", "history"}
  /\ call.names = <<"history">>
  /\ DOMAIN glm.X["test"] = {"history"}
  /\ glm.ret.names = {"history"}

\* the column of the concatenated design matrix that holds the ones of the
\* i-th registered filter: the global ones-column is column 0, then every
\* filter has its ones-column and its design columns
RECURSIVE OwnOnes(_)
OwnOnes(i) ==
  IF i = 1 THEN 1
  ELSE OwnOnes(i - 1) + mle_block_cols(glm, glm.filter_names[i - 1])

\* the coefficients compute_mle stored for a filter
MleVector(name) ==
  IF Has(glm.S, name) THEN glm.b["mle"][name] ELSE glm.w["mle"][name]

\* C18: compute_mle assigns to each registered filter, in registration order,
\* the coefficients of that filter's own block of the concatenated design
\* matrix: its intercept is the coefficient of its own leading ones-column,
\* its weight/coefficient vector the coefficients of exactly its design (or
\* basis-projected) columns, and the global intercept is the coefficient of
\* the prepended ones-column.
C18_OwnBlock ==
  (call.op = "compute_mle" /\ Ok(glm) /\ glm.mle_computed)
    => /\ glm.intercept["mle"]["global"] = 0
       /\ \A i \in 1 .. Len(glm.filter_names) :
            /\ glm.intercept["mle"][glm.filter_names[i]] = OwnOnes(i)
            /\ MleVector(glm.filter_names[i]).lo = OwnOnes(i) + 1
            /\ MleVector(glm.filter_names[i]).len
                 = mle_block_cols(glm, glm.filter_names[i]) - 1

\* C19: cost adds the elastic-net penalty term exactly when penalize is true,
\* beta is nonzero and the split is train; in every other call it returns
\* the unpenalized negative log-likelihood.
C19_PenaltyOnlyOnTrain ==
  (call.op = "cost" /\ cost_nll_err(glm, glm.p0, call.kind) = "none")
    => /\ Ok(glm)
       /\ glm.ret.kind = "cost"
       /\ glm.ret.value
            = CostBase + (IF call.penalize /\ glm.beta # 0 /\ call.kind = "train"
                          THEN glm.beta * MaxNorm ELSE 0)

\* the variance store: covariances, standard errors and response bands
VarStore(g) == <<g.V, g.w_se, g.b_se, g.y_pred_upper, g.y_pred_lower>>

\* the call is made with confidence intervals switched off
WithoutCI ==
  \/ call'.op \in {"compute_mle", "initialize"} /\ ~call'.ci
  \/ call'.op \in {"fit", "predict"} /\ glm.has_init /\ ~glm.compute_ci

\* C20: the variance store is written only by a call for which the
\* computation of confidence intervals is enabled: after any sequence of
\* calls compute_mle(response, compute_ci=false) leaves it unchanged, and so
\* do initialize, fit and predict on a model initialized with
\* compute_ci=false.
C20_VarianceOnlyWithCI ==
  [][WithoutCI => VarStore(glm') = VarStore(glm)]_vars


\* the filters of the call that were registered for the train split without
\* smoothing: no basis matrix under their name or under a subunit alias
Unsmoothed ==
  {name \in Range(call.names) :
     /\ HasIn(glm.X, "train", name)
     /\ ~Has(glm.S, name)
     /\ ~Has(glm.S, "stimulus_s0")}

\* C26: for a filter that was registered for the train split without
\* smoothing, registering the test split through predict succeeds, stores the
\* raw test design matrix with no basis projection, and predict returns the
\* forward pass on it.
C26_UnsmoothedTestRegisters ==
  (call.op = "predict" /\ glm.has_init /\ Has(glm.p, call.kind)
     /\ Unsmoothed # {})
    => /\ Ok(glm)
       /\ \A name \in Unsmoothed :
            /\ HasIn(glm.X, "test", name)
            /\ ~HasIn(glm.XS, "test", name)
       /\ glm.ret.kind = "pred"
       /\ glm.ret.names = Range(call.names)


-----------------------------------------------------------------------------
(* Parameter sets and confidence intervals: models of either noise          *)
(* distribution, with or without subunits, on data sets where the exact     *)
(* inversion fails for some filters                                         *)

MaxVarCalls == 3

\* GLM(distr=...) with the filters of UseReg
VarReg(smooth, distr, singular) ==
  [UseReg(MaxRows, smooth) EXCEPT !.distr = distr, !.singular = singular]

InitVar ==
  /\ glm \in {VarReg(smooth, distr, singular) :
                smooth \in {"cr", "none"}, distr \in {"gaussian", "poisson"},
                singular \in SUBSET {"stimulus", "history"}}
  /\ call = UseCall
  /\ ncalls = 0

ComputeMleVar ==
  /\ ncalls < MaxVarCalls
  /\ \E ci \in BOOLEAN :
       /\ glm' = compute_mle(Raise(glm, "none"), YArray(MaxRows), ci)
       /\ call' = [UseCall EXCEPT !.op = "compute_mle", !.y = YArray(MaxRows),
                                  !.ci = ci]
  /\ ncalls' = ncalls + 1

\* before: the number of subunits asked for
InitializeVar ==
  /\ ncalls < MaxVarCalls
  /\ \E method \in {"random", "mle"}, k \in {1, 2}, ci \in BOOLEAN :
       /\ glm' = initialize(Raise(glm, "none"),
                            InitArgs(YDict(MaxRows, TRUE, MaxRows), k, method, ci))
       /\ call' = [UseCall EXCEPT !.op = "initialize", !.kind = method,
                                  !.y = YDict(MaxRows, TRUE, MaxRows), !.ci = ci,
                                  !.before = {k}]
  /\ ncalls' = ncalls + 1

\* runs whose dev cost falls or rises with every step
VarFitArgs ==
  { [y |-> YNone, num_iters |-> 2, beta |-> 1, metric |-> "corrcoef",
     tolerance |-> 0, return_model |-> "best_dev_cost",
     prof |-> [train |-> q, dev |-> q, mtrain |-> q, mdev |-> q]] :
      q \in Bend({-1, 1}, {EarlyStopAfter}, {1}) }

FitVar ==
  /\ ncalls < MaxVarCalls
  /\ \E a \in VarFitArgs :
       /\ glm' = fit(Raise(glm, "none"), a)
       /\ call' = [UseCall EXCEPT !.op = "fit", !.y = a.y]
  /\ ncalls' = ncalls + 1

PredictVar ==
  /\ ncalls < MaxVarCalls
  /\ \E names \in {<<"stimulus">>, <<"stimulus", "history">>},
        w_type \in {"mle", "opt"} :
       /\ glm' = predict(Raise(glm, "none"), PredictArgs(names, MaxRows, w_type))
       /\ call' = [UseCall EXCEPT !.op = "predict", !.kind = w_type,
                                  !.names = names]
  /\ ncalls' = ncalls + 1

NextVar == ComputeMleVar \/ InitializeVar \/ FitVar \/ PredictVar

SpecVar == InitVar /\ [][NextVar]_vars

\* the operation of the call computes the filter variance of this weight
\* type (lines 463-464 and 809-810)
VarianceOf ==
  IF call.op = "fit" THEN "opt" ELSE "mle"

\* C21: in every branch of the filter-variance computation (Gaussian or
\* Poisson, smoothed or unsmoothed filter) a failure of the exact matrix
\* inversion is recovered by the pseudo-inverse: the variance computation
\* completes and stores a covariance for that filter instead of propagating
\* the failure.
C21_PinvRecovers ==
  /\ glm.err # "LinAlgError"
  /\ (call.op \in {"compute_mle", "initialize", "fit"} /\ Ok(glm)
        /\ glm.compute_ci /\ Has(glm.V, VarianceOf))
       => \A name \in Range(glm.filter_names) \cap glm.singular :
            /\ Has(glm.V[VarianceOf], name)
            /\ glm.V[VarianceOf][name].by = "pinv"

\* the parameter set of a method is complete: compute_mle or a random
\* initialization has finalized it
Finalized(g, method) ==
  /\ Has(g.p, method)
  /\ method \in g.shared
  /\ Has(g.w, method)
  /\ DOMAIN g.p[method].vals = DOMAIN g.w[method]
  /\ method = "mle" => g.mle_computed

\* the operation of the step comes after the parameter set of the method was
\* finalized: an initialization (a random one draws the 'random' set anew),
\* a fit or a prediction
LaterOperation(method) ==
  /\ call'.op \in {"initialize", "fit", "predict"}
  /\ ~(call'.op = "initialize" /\ call'.kind = "random" /\ method = "random")

\* C22: once compute_mle (or a random initialization) has finalized a
\* parameter set, no later operation (initialize with or without subunit
\* expansion, fit, predict) changes that instance: its keys (the filter names
\* and the keys of its intercept mapping) and its values are the same before
\* and after the operation, and fit only creates the separate 'opt' instance.
C22_FinalizedNeverMutated ==
  [][\A method \in {"mle", "random"} :
       (Finalized(glm, method) /\ LaterOperation(method))
         => /\ Has(glm'.p, method)
            /\ glm'.p[method] = glm.p[method]]_vars

\* the minimum of a trace
MinOf(trace) == trace[ArgMin(trace) + 1]

\* C23: in every entry of the optimization trace the recorded train cost,
\* dev cost, train metric and dev metric are all evaluated at the parameter
\* snapshot stored in that same entry, so that best_train_cost returns the
\* snapshot whose own train cost is the minimum recorded train cost.
C23_TraceAtSnapshot ==
  (Fitted /\ call.kind \in Metrics)
    => /\ \A j \in 1 .. Len(glm.all_params) :
            /\ glm.cost_train[j] = TrainCostAt(glm.prof, glm.all_params[j].steps)
            /\ glm.metric_train[j]
                 = MetricAt(glm.prof, glm.metric, "train", glm.all_params[j].steps)
            /\ Has(glm.y, "dev")
                 => /\ glm.cost_dev[j]
                         = DevCostAt(glm.prof, glm.all_params[j].steps)
                    /\ glm.metric_dev[j]
                         = MetricAt(glm.prof, glm.metric, "dev",
                                    glm.all_params[j].steps)
       /\ call.rm = "best_train_cost"
            => TrainCostAt(glm.prof, glm.p["opt"].steps) = MinOf(glm.cost_train)

\* C24: for every selection policy, stop reason, max_iters >= 1 and
\* tolerance >= 0, the index of the snapshot that optimize returns lies
\* between 0 and the index of the last executed iteration inclusive: it is
\* never negative and never refers to an iteration that was not executed.
C24_ReturnedIndexInRange ==
  (Fitted /\ glm.num_iters >= 1 /\ glm.tolerance >= 0)
    => /\ glm.best >= 0
       /\ glm.best <= glm.last_i
       /\ glm.best + 1 \in DOMAIN glm.all_params

\* C25: after fit returns, the stored 'opt' predictions for the train split
\* (and the dev split, if present) are the forward pass of the returned 'opt'
\* parameter set, also when confidence intervals are disabled and the
\* selected iterate is not the last executed one, and the residuals used for
\* the 'opt' filter variance are computed from that same parameter set.
C25_OptPredictionsOfOpt ==
  Fitted
    => /\ glm.y_pred["opt"]["train"].steps = glm.p["opt"].steps
       /\ Has(glm.y, "dev")
            => glm.y_pred["opt"]["dev"].steps = glm.p["opt"].steps
       /\ (glm.compute_ci /\ glm.distr = "gaussian")
            => \A name \in DOMAIN glm.V["opt"] :
                 glm.V["opt"][name].steps = glm.p["opt"].steps

=============================================================================
